---- MODULE Spec2Model ----
(***************************************************************************)
(* Model of the client-side OCR field-extraction pipeline of               *)
(* src/src/services/ocrService.ts (class OCRService).                      *)
(*                                                                         *)
(* A string is a sequence of one-character strings.  A regular expression  *)
(* literal of the source is a program of a small backtracking matcher      *)
(* (Run/Search below) that follows the leftmost, greedy, first-alternative *)
(* semantics of String.prototype.match for the constructs the source uses. *)
(***************************************************************************)
EXTENDS Integers, Sequences, FiniteSets, TLC

\* ------------------------------------------------------------------------
\* Characters
\* ------------------------------------------------------------------------
UpperSeq ==
    <<"A","B","C","D","E","F","G","H","I","J","K","L","M",
      "N","O","P","Q","R","S","T","U","V","W","X","Y","Z">>

LowerSeq ==
    <<"a","b","c","d","e","f","g","h","i","j","k","l","m",
      "n","o","p","q","r","s","t","u","v","w","x","y","z">>

Upper == {"A","B","C","D","E","F","G","H","I","J","K","L","M","N","O","P","Q","R","S","T","U","V","W","X","Y","Z"}

Lower == {"a","b","c","d","e","f","g","h","i","j","k","l","m","n","o","p","q","r","s","t","u","v","w","x","y","z"}

Digit == {"0","1","2","3","4","5","6","7","8","9"}

\* \s of the regular expressions and of String.prototype.trim
Space == {" ", "\t", "\n", "\r"}

\* \w
Word == Upper \cup Lower \cup Digit \cup {"_"}

\* the characters "." does not match
LineTerminator == {"\n", "\r"}

ToLowerMap == [c \in Upper |-> LowerSeq[CHOOSE i \in DOMAIN UpperSeq : UpperSeq[i] = c]]

ToUpperMap == [c \in Lower |-> UpperSeq[CHOOSE i \in DOMAIN LowerSeq : LowerSeq[i] = c]]

LowerChar(c) == IF c \in Upper THEN ToLowerMap[c] ELSE c

SwapCase(c) ==
    IF c \in Upper THEN ToLowerMap[c]
    ELSE IF c \in Lower THEN ToUpperMap[c]
    ELSE c

\* String.prototype.toLowerCase
toLowerCase(s) == [i \in DOMAIN s |-> LowerChar(s[i])]

\* ------------------------------------------------------------------------
\* Regular expression matcher.  A pattern is [ci, ng, prog]: the i flag,
\* the number of capture groups and the program.  Instructions:
\*   lit s            the literal characters s
\*   alt ws           (?:w1|w2|...) of literal words, tried in order
\*   rep cls neg min max   a (possibly negated) character class repeated
\*                    greedily min..max times (max = -1: unbounded)
\*   split x y        try continuing at x, then at y
\*   jmp x            continue at x
\*   save g e         start (e = 0) or end (e = 1) of capture group g
\*   nla x y          negative lookahead: body at x (ends in match), then y
\*   bol, eol         ^ and $
\*   match            success
\* ------------------------------------------------------------------------
NoMatch == [ok |-> FALSE]

\* the character c as the matcher compares it
Canon(c, ci) == IF ci THEN LowerChar(c) ELSE c

EqChar(a, b, ci) == a = b \/ (ci /\ LowerChar(a) = LowerChar(b))

InClass(c, ins, ci) ==
    ((c \in ins.cls) \/ (ci /\ SwapCase(c) \in ins.cls)) # ins.neg

LitAt(t, pos, s, ci) ==
    /\ pos + Len(s) - 1 <= Len(t)
    /\ \A j \in 1..Len(s) : EqChar(t[pos + j - 1], s[j], ci)

RECURSIVE FirstStop(_, _, _, _, _)
\* the first position in lo..hi whose character is not in the class of ins,
\* or hi + 1 when there is none (the interval is halved, the lower half first)
FirstStop(t, ins, ci, lo, hi) ==
    IF lo > hi THEN hi + 1
    ELSE IF lo = hi THEN (IF InClass(t[lo], ins, ci) THEN hi + 1 ELSE lo)
    ELSE LET mid == (lo + hi) \div 2
             lower == FirstStop(t, ins, ci, lo, mid)
         IN IF lower <= mid THEN lower ELSE FirstStop(t, ins, ci, mid + 1, hi)

\* how many characters from pos on are in the class of ins (at most ins.max)
RunLength(t, pos, ins, ci) ==
    LET last == IF ins.max >= 0 /\ pos + ins.max - 1 < Len(t)
                THEN pos + ins.max - 1
                ELSE Len(t)
    IN FirstStop(t, ins, ci, pos, last) - pos

RECURSIVE Run(_, _, _, _, _)
RECURSIVE RunAlt(_, _, _, _, _, _)
RECURSIVE RunRep(_, _, _, _, _, _, _)

\* the match of re.prog from instruction pc at position pos, or NoMatch
Run(re, t, pc, pos, caps) ==
    LET ins == re.prog[pc] IN
    CASE ins.op = "match" -> [ok |-> TRUE, e |-> pos, caps |-> caps]
      [] ins.op = "lit" ->
            IF LitAt(t, pos, ins.s, re.ci)
            THEN Run(re, t, pc + 1, pos + Len(ins.s), caps)
            ELSE NoMatch
      [] ins.op = "alt" ->
            IF pos <= Len(t) /\ Canon(t[pos], re.ci) \in DOMAIN ins.by
            THEN RunAlt(re, t, pc, pos, caps, ins.by[Canon(t[pos], re.ci)])
            ELSE NoMatch
      [] ins.op = "rep" ->
            RunRep(re, t, pc, pos, caps, ins.min, RunLength(t, pos, ins, re.ci))
      [] ins.op = "split" ->
            LET r == Run(re, t, ins.x, pos, caps) IN
            IF r.ok THEN r ELSE Run(re, t, ins.y, pos, caps)
      [] ins.op = "jmp" -> Run(re, t, ins.x, pos, caps)
      [] ins.op = "save" ->
            Run(re, t, pc + 1, pos,
                [caps EXCEPT ![ins.g] =
                    IF ins.e = 0 THEN <<pos, 0>> ELSE <<caps[ins.g][1], pos>>])
      [] ins.op = "nla" ->
            IF Run(re, t, ins.x, pos, caps).ok
            THEN NoMatch
            ELSE Run(re, t, ins.y, pos, caps)
      [] ins.op = "bol" ->
            IF pos = 1 THEN Run(re, t, pc + 1, pos, caps) ELSE NoMatch
      [] ins.op = "eol" ->
            IF pos = Len(t) + 1 THEN Run(re, t, pc + 1, pos, caps) ELSE NoMatch

\* the alternatives ws of an alt instruction, in order
RunAlt(re, t, pc, pos, caps, ws) ==
    IF Len(ws) = 0 THEN NoMatch
    ELSE IF LitAt(t, pos, ws[1], re.ci)
         THEN LET r == Run(re, t, pc + 1, pos + Len(ws[1]), caps) IN
              IF r.ok THEN r ELSE RunAlt(re, t, pc, pos, caps, Tail(ws))
         ELSE RunAlt(re, t, pc, pos, caps, Tail(ws))

\* greedy repetition of lo..hi characters: the match of the rest of the
\* program after the longest run that has one (the interval is halved, the
\* longer runs first)
RunRep(re, t, pc, pos, caps, lo, hi) ==
    IF lo > hi THEN NoMatch
    ELSE IF lo = hi THEN Run(re, t, pc + 1, pos + hi, caps)
    ELSE LET mid == (lo + hi) \div 2
             longer == RunRep(re, t, pc, pos, caps, mid + 1, hi)
         IN IF longer.ok THEN longer
            ELSE RunRep(re, t, pc, pos, caps, lo, mid)

\* the match record of a run r of the program started at position p
MatchAt(p, r) ==
    IF r.ok THEN [ok |-> TRUE, s |-> p, e |-> r.e, caps |-> r.caps] ELSE NoMatch

RECURSIVE SearchIn(_, _, _, _)
\* the leftmost match starting at a position of lo..hi (the interval is
\* halved, the lower half first)
SearchIn(re, t, lo, hi) ==
    IF lo > hi THEN NoMatch
    ELSE IF lo = hi
         THEN MatchAt(lo, Run(re, t, 1, lo, [g \in 1..re.ng |-> <<0, 0>>]))
    ELSE LET lower == SearchIn(re, t, lo, (lo + hi) \div 2)
         IN IF lower.ok THEN lower
            ELSE SearchIn(re, t, ((lo + hi) \div 2) + 1, hi)

\* the leftmost match starting at position q or later
SearchFrom(re, t, q) == SearchIn(re, t, q, Len(t) + 1)

\* String.prototype.match(re) without the g flag
Search(re, t) == SearchFrom(re, t, 1)

\* an alt instruction with its words grouped by their first character (the
\* only words that can match at a position), each group in the order of ws
IndexAlt(ins, ci) ==
    LET firsts == {Canon(ins.ws[w][1], ci) : w \in DOMAIN ins.ws}
    IN [op |-> "alt", ws |-> ins.ws,
        by |-> [c \in firsts |->
                  LET StartsWith(word) == Canon(word[1], ci) = c
                  IN SelectSeq(ins.ws, StartsWith)]]

Indexed(re) ==
    [ci |-> re.ci, ng |-> re.ng,
     prog |-> [i \in DOMAIN re.prog |->
                 IF re.prog[i].op = "alt" THEN IndexAlt(re.prog[i], re.ci)
                 ELSE re.prog[i]]]

\* match[g]: the captured text, <<>> when the pattern has no such group or
\* the group took no part in the match (undefined and "" are both falsy)
Group(t, m, g) ==
    IF g \in DOMAIN m.caps /\ m.caps[g][2] > 0
    THEN SubSeq(t, m.caps[g][1], m.caps[g][2] - 1)
    ELSE <<>>

\* match[0]
Matched(t, m) == SubSeq(t, m.s, m.e - 1)

\* ------------------------------------------------------------------------
\* The regular expressions of the source
\* ------------------------------------------------------------------------
\* patterns.studentName
patterns_studentName ==
    <<
    \* /(?:name|student|candidate)[\s:]*([A-Za-z\s]+(?:\([^)]+\))?)/i
    Indexed([ci |-> TRUE, ng |-> 1,
     prog |-> <<[op |-> "alt", ws |-> <<<<"n","a","m","e">>, <<"s","t","u","d","e","n","t">>, <<"c","a","n","d","i","d","a","t","e">>>>],
                [op |-> "rep", cls |-> Space \cup {":"}, neg |-> FALSE, min |-> 0, max |-> -1],
                [op |-> "save", g |-> 1, e |-> 0],
                [op |-> "rep", cls |-> Upper \cup Lower \cup Space, neg |-> FALSE, min |-> 1, max |-> -1],
                [op |-> "split", x |-> 6, y |-> 9],
                [op |-> "lit", s |-> <<"(">>],
                [op |-> "rep", cls |-> {")"}, neg |-> TRUE, min |-> 1, max |-> -1],
                [op |-> "lit", s |-> <<")">>],
                [op |-> "save", g |-> 1, e |-> 1],
                [op |-> "match"]>>]),
    \* /(?:this is to certify that|certify that)\s+([A-Za-z\s]+)/i
    Indexed([ci |-> TRUE, ng |-> 1,
     prog |-> <<[op |-> "alt", ws |-> <<<<"t","h","i","s"," ","i","s"," ","t","o"," ","c","e","r","t","i","f","y"," ","t","h","a","t">>, <<"c","e","r","t","i","f","y"," ","t","h","a","t">>>>],
                [op |-> "rep", cls |-> Space, neg |-> FALSE, min |-> 1, max |-> -1],
                [op |-> "save", g |-> 1, e |-> 0],
                [op |-> "rep", cls |-> Upper \cup Lower \cup Space, neg |-> FALSE, min |-> 1, max |-> -1],
                [op |-> "save", g |-> 1, e |-> 1],
                [op |-> "match"]>>]),
    \* /(?:mr\.|ms\.|mrs\.)\s*([A-Za-z\s]+(?:\([^)]+\))?)/i
    Indexed([ci |-> TRUE, ng |-> 1,
     prog |-> <<[op |-> "alt", ws |-> <<<<"m","r",".">>, <<"m","s",".">>, <<"m","r","s",".">>>>],
                [op |-> "rep", cls |-> Space, neg |-> FALSE, min |-> 0, max |-> -1],
                [op |-> "save", g |-> 1, e |-> 0],
                [op |-> "rep", cls |-> Upper \cup Lower \cup Space, neg |-> FALSE, min |-> 1, max |-> -1],
                [op |-> "split", x |-> 6, y |-> 9],
                [op |-> "lit", s |-> <<"(">>],
                [op |-> "rep", cls |-> {")"}, neg |-> TRUE, min |-> 1, max |-> -1],
                [op |-> "lit", s |-> <<")">>],
                [op |-> "save", g |-> 1, e |-> 1],
                [op |-> "match"]>>]),
    \* /(?:student[\s]*name|name)[\s:]*([A-Z][A-Za-z\s]+(?:PATIL|SINGH|KUMAR|SHARMA|GUPTA|VERMA|YADAV|AHMED|KHAN|ALI|JOSHI|MISHRA|TIWARI|MALIK|CHAUHAN|AGARWAL|JAIN|MEHTA|BANSAL|GOEL|ARORA|KAPOOR|REDDY|RAO|NAIDU|VENKAT|KRISHNA|RAM|LAKSHMI|DEVI|KUMARI))/i
    Indexed([ci |-> TRUE, ng |-> 1,
     prog |-> <<[op |-> "split", x |-> 2, y |-> 6],
                [op |-> "lit", s |-> <<"s","t","u","d","e","n","t">>],
                [op |-> "rep", cls |-> Space, neg |-> FALSE, min |-> 0, max |-> -1],
                [op |-> "lit", s |-> <<"n","a","m","e">>],
                [op |-> "jmp", x |-> 7],
                [op |-> "lit", s |-> <<"n","a","m","e">>],
                [op |-> "rep", cls |-> Space \cup {":"}, neg |-> FALSE, min |-> 0, max |-> -1],
                [op |-> "save", g |-> 1, e |-> 0],
                [op |-> "rep", cls |-> Upper, neg |-> FALSE, min |-> 1, max |-> 1],
                [op |-> "rep", cls |-> Upper \cup Lower \cup Space, neg |-> FALSE, min |-> 1, max |-> -1],
                [op |-> "alt", ws |-> <<<<"P","A","T","I","L">>, <<"S","I","N","G","H">>, <<"K","U","M","A","R">>, <<"S","H","A","R","M","A">>, <<"G","U","P","T","A">>, <<"V","E","R","M","A">>, <<"Y","A","D","A","V">>, <<"A","H","M","E","D">>, <<"K","H","A","N">>, <<"A","L","I">>, <<"J","O","S","H","I">>, <<"M","I","S","H","R","A">>, <<"T","I","W","A","R","I">>, <<"M","A","L","I","K">>, <<"C","H","A","U","H","A","N">>, <<"A","G","A","R","W","A","L">>, <<"J","A","I","N">>, <<"M","E","H","T","A">>, <<"B","A","N","S","A","L">>, <<"G","O","E","L">>, <<"A","R","O","R","A">>, <<"K","A","P","O","O","R">>, <<"R","E","D","D","Y">>, <<"R","A","O">>, <<"N","A","I","D","U">>, <<"V","E","N","K","A","T">>, <<"K","R","I","S","H","N","A">>, <<"R","A","M">>, <<"L","A","K","S","H","M","I">>, <<"D","E","V","I">>, <<"K","U","M","A","R","I">>>>],
                [op |-> "save", g |-> 1, e |-> 1],
                [op |-> "match"]>>]),
    \* /([A-Z][a-z]+\s+[A-Z][a-z]+\s+[A-Z][a-z]+(?:\s+[A-Z][a-z]+)*)/
    Indexed([ci |-> FALSE, ng |-> 1,
     prog |-> <<[op |-> "save", g |-> 1, e |-> 0],
                [op |-> "rep", cls |-> Upper, neg |-> FALSE, min |-> 1, max |-> 1],
                [op |-> "rep", cls |-> Lower, neg |-> FALSE, min |-> 1, max |-> -1],
                [op |-> "rep", cls |-> Space, neg |-> FALSE, min |-> 1, max |-> -1],
                [op |-> "rep", cls |-> Upper, neg |-> FALSE, min |-> 1, max |-> 1],
                [op |-> "rep", cls |-> Lower, neg |-> FALSE, min |-> 1, max |-> -1],
                [op |-> "rep", cls |-> Space, neg |-> FALSE, min |-> 1, max |-> -1],
                [op |-> "rep", cls |-> Upper, neg |-> FALSE, min |-> 1, max |-> 1],
                [op |-> "rep", cls |-> Lower, neg |-> FALSE, min |-> 1, max |-> -1],
                [op |-> "split", x |-> 11, y |-> 15],
                [op |-> "rep", cls |-> Space, neg |-> FALSE, min |-> 1, max |-> -1],
                [op |-> "rep", cls |-> Upper, neg |-> FALSE, min |-> 1, max |-> 1],
                [op |-> "rep", cls |-> Lower, neg |-> FALSE, min |-> 1, max |-> -1],
                [op |-> "jmp", x |-> 10],
                [op |-> "save", g |-> 1, e |-> 1],
                [op |-> "match"]>>]),
    \* /(?!.*(?:institute|college|university|technology|school|academy))([A-Z][A-Za-z\s]+(?:PATIL|SINGH|KUMAR|SHARMA|GUPTA|VERMA|YADAV|AHMED|KHAN|ALI))/i
    Indexed([ci |-> TRUE, ng |-> 1,
     prog |-> <<[op |-> "nla", x |-> 2, y |-> 5],
                [op |-> "rep", cls |-> LineTerminator, neg |-> TRUE, min |-> 0, max |-> -1],
                [op |-> "alt", ws |-> <<<<"i","n","s","t","i","t","u","t","e">>, <<"c","o","l","l","e","g","e">>, <<"u","n","i","v","e","r","s","i","t","y">>, <<"t","e","c","h","n","o","l","o","g","y">>, <<"s","c","h","o","o","l">>, <<"a","c","a","d","e","m","y">>>>],
                [op |-> "match"],
                [op |-> "save", g |-> 1, e |-> 0],
                [op |-> "rep", cls |-> Upper, neg |-> FALSE, min |-> 1, max |-> 1],
                [op |-> "rep", cls |-> Upper \cup Lower \cup Space, neg |-> FALSE, min |-> 1, max |-> -1],
                [op |-> "alt", ws |-> <<<<"P","A","T","I","L">>, <<"S","I","N","G","H">>, <<"K","U","M","A","R">>, <<"S","H","A","R","M","A">>, <<"G","U","P","T","A">>, <<"V","E","R","M","A">>, <<"Y","A","D","A","V">>, <<"A","H","M","E","D">>, <<"K","H","A","N">>, <<"A","L","I">>>>],
                [op |-> "save", g |-> 1, e |-> 1],
                [op |-> "match"]>>])
    >>

\* patterns.studentRoll
patterns_studentRoll ==
    <<
    \* /(?:roll|reg|registration)[\s:]*no[.\s:]*([A-Z0-9\-]+)/i
    Indexed([ci |-> TRUE, ng |-> 1,
     prog |-> <<[op |-> "alt", ws |-> <<<<"r","o","l","l">>, <<"r","e","g">>, <<"r","e","g","i","s","t","r","a","t","i","o","n">>>>],
                [op |-> "rep", cls |-> Space \cup {":"}, neg |-> FALSE, min |-> 0, max |-> -1],
                [op |-> "lit", s |-> <<"n","o">>],
                [op |-> "rep", cls |-> Space \cup {".", ":"}, neg |-> FALSE, min |-> 0, max |-> -1],
                [op |-> "save", g |-> 1, e |-> 0],
                [op |-> "rep", cls |-> Upper \cup Digit \cup {"-"}, neg |-> FALSE, min |-> 1, max |-> -1],
                [op |-> "save", g |-> 1, e |-> 1],
                [op |-> "match"]>>]),
    \* /(?:roll|reg|registration)[\s:]*([A-Z0-9\-]+)/i
    Indexed([ci |-> TRUE, ng |-> 1,
     prog |-> <<[op |-> "alt", ws |-> <<<<"r","o","l","l">>, <<"r","e","g">>, <<"r","e","g","i","s","t","r","a","t","i","o","n">>>>],
                [op |-> "rep", cls |-> Space \cup {":"}, neg |-> FALSE, min |-> 0, max |-> -1],
                [op |-> "save", g |-> 1, e |-> 0],
                [op |-> "rep", cls |-> Upper \cup Digit \cup {"-"}, neg |-> FALSE, min |-> 1, max |-> -1],
                [op |-> "save", g |-> 1, e |-> 1],
                [op |-> "match"]>>]),
    \* /roll[\s:]*no[.\s:]*([A-Z0-9\-]+)/i
    Indexed([ci |-> TRUE, ng |-> 1,
     prog |-> <<[op |-> "lit", s |-> <<"r","o","l","l">>],
                [op |-> "rep", cls |-> Space \cup {":"}, neg |-> FALSE, min |-> 0, max |-> -1],
                [op |-> "lit", s |-> <<"n","o">>],
                [op |-> "rep", cls |-> Space \cup {".", ":"}, neg |-> FALSE, min |-> 0, max |-> -1],
                [op |-> "save", g |-> 1, e |-> 0],
                [op |-> "rep", cls |-> Upper \cup Digit \cup {"-"}, neg |-> FALSE, min |-> 1, max |-> -1],
                [op |-> "save", g |-> 1, e |-> 1],
                [op |-> "match"]>>]),
    \* /([A-Z0-9]{8,12})/
    Indexed([ci |-> FALSE, ng |-> 1,
     prog |-> <<[op |-> "save", g |-> 1, e |-> 0],
                [op |-> "rep", cls |-> Upper \cup Digit, neg |-> FALSE, min |-> 8, max |-> 12],
                [op |-> "save", g |-> 1, e |-> 1],
                [op |-> "match"]>>])
    >>

\* patterns.certificateNumber
patterns_certificateNumber ==
    <<
    \* /(?:certificate|cert|degree|receipt)[\s:]*no[.\s:]*([A-Z0-9\-]+)/i
    Indexed([ci |-> TRUE, ng |-> 1,
     prog |-> <<[op |-> "alt", ws |-> <<<<"c","e","r","t","i","f","i","c","a","t","e">>, <<"c","e","r","t">>, <<"d","e","g","r","e","e">>, <<"r","e","c","e","i","p","t">>>>],
                [op |-> "rep", cls |-> Space \cup {":"}, neg |-> FALSE, min |-> 0, max |-> -1],
                [op |-> "lit", s |-> <<"n","o">>],
                [op |-> "rep", cls |-> Space \cup {".", ":"}, neg |-> FALSE, min |-> 0, max |-> -1],
                [op |-> "save", g |-> 1, e |-> 0],
                [op |-> "rep", cls |-> Upper \cup Digit \cup {"-"}, neg |-> FALSE, min |-> 1, max |-> -1],
                [op |-> "save", g |-> 1, e |-> 1],
                [op |-> "match"]>>]),
    \* /certificate[\s:]*number[\s:]*([A-Z0-9\-]+)/i
    Indexed([ci |-> TRUE, ng |-> 1,
     prog |-> <<[op |-> "lit", s |-> <<"c","e","r","t","i","f","i","c","a","t","e">>],
                [op |-> "rep", cls |-> Space \cup {":"}, neg |-> FALSE, min |-> 0, max |-> -1],
                [op |-> "lit", s |-> <<"n","u","m","b","e","r">>],
                [op |-> "rep", cls |-> Space \cup {":"}, neg |-> FALSE, min |-> 0, max |-> -1],
                [op |-> "save", g |-> 1, e |-> 0],
                [op |-> "rep", cls |-> Upper \cup Digit \cup {"-"}, neg |-> FALSE, min |-> 1, max |-> -1],
                [op |-> "save", g |-> 1, e |-> 1],
                [op |-> "match"]>>]),
    \* /(?:certificate|cert)[\s:]*([A-Z0-9\-]+)/i
    Indexed([ci |-> TRUE, ng |-> 1,
     prog |-> <<[op |-> "alt", ws |-> <<<<"c","e","r","t","i","f","i","c","a","t","e">>, <<"c","e","r","t">>>>],
                [op |-> "rep", cls |-> Space \cup {":"}, neg |-> FALSE, min |-> 0, max |-> -1],
                [op |-> "save", g |-> 1, e |-> 0],
                [op |-> "rep", cls |-> Upper \cup Digit \cup {"-"}, neg |-> FALSE, min |-> 1, max |-> -1],
                [op |-> "save", g |-> 1, e |-> 1],
                [op |-> "match"]>>]),
    \* /receipt[\s:]*no[.\s:]*([A-Z0-9\-]+)/i
    Indexed([ci |-> TRUE, ng |-> 1,
     prog |-> <<[op |-> "lit", s |-> <<"r","e","c","e","i","p","t">>],
                [op |-> "rep", cls |-> Space \cup {":"}, neg |-> FALSE, min |-> 0, max |-> -1],
                [op |-> "lit", s |-> <<"n","o">>],
                [op |-> "rep", cls |-> Space \cup {".", ":"}, neg |-> FALSE, min |-> 0, max |-> -1],
                [op |-> "save", g |-> 1, e |-> 0],
                [op |-> "rep", cls |-> Upper \cup Digit \cup {"-"}, neg |-> FALSE, min |-> 1, max |-> -1],
                [op |-> "save", g |-> 1, e |-> 1],
                [op |-> "match"]>>]),
    \* /([0-9]{6,})/
    Indexed([ci |-> FALSE, ng |-> 1,
     prog |-> <<[op |-> "save", g |-> 1, e |-> 0],
                [op |-> "rep", cls |-> Digit, neg |-> FALSE, min |-> 6, max |-> -1],
                [op |-> "save", g |-> 1, e |-> 1],
                [op |-> "match"]>>])
    >>

\* patterns.institutionName
patterns_institutionName ==
    <<
    \* /(?:university|college|institute|school)[\s:]*([A-Za-z\s&.,]+)/i
    Indexed([ci |-> TRUE, ng |-> 1,
     prog |-> <<[op |-> "alt", ws |-> <<<<"u","n","i","v","e","r","s","i","t","y">>, <<"c","o","l","l","e","g","e">>, <<"i","n","s","t","i","t","u","t","e">>, <<"s","c","h","o","o","l">>>>],
                [op |-> "rep", cls |-> Space \cup {":"}, neg |-> FALSE, min |-> 0, max |-> -1],
                [op |-> "save", g |-> 1, e |-> 0],
                [op |-> "rep", cls |-> Upper \cup Lower \cup Space \cup {"&", ",", "."}, neg |-> FALSE, min |-> 1, max |-> -1],
                [op |-> "save", g |-> 1, e |-> 1],
                [op |-> "match"]>>]),
    \* /([A-Z][A-Za-z\s&.,]+(?:university|college|institute|school))/i
    Indexed([ci |-> TRUE, ng |-> 1,
     prog |-> <<[op |-> "save", g |-> 1, e |-> 0],
                [op |-> "rep", cls |-> Upper, neg |-> FALSE, min |-> 1, max |-> 1],
                [op |-> "rep", cls |-> Upper \cup Lower \cup Space \cup {"&", ",", "."}, neg |-> FALSE, min |-> 1, max |-> -1],
                [op |-> "alt", ws |-> <<<<"u","n","i","v","e","r","s","i","t","y">>, <<"c","o","l","l","e","g","e">>, <<"i","n","s","t","i","t","u","t","e">>, <<"s","c","h","o","o","l">>>>],
                [op |-> "save", g |-> 1, e |-> 1],
                [op |-> "match"]>>]),
    \* /(?:awarded by|issued by)[\s:]*([A-Za-z\s&.,]+)/i
    Indexed([ci |-> TRUE, ng |-> 1,
     prog |-> <<[op |-> "alt", ws |-> <<<<"a","w","a","r","d","e","d"," ","b","y">>, <<"i","s","s","u","e","d"," ","b","y">>>>],
                [op |-> "rep", cls |-> Space \cup {":"}, neg |-> FALSE, min |-> 0, max |-> -1],
                [op |-> "save", g |-> 1, e |-> 0],
                [op |-> "rep", cls |-> Upper \cup Lower \cup Space \cup {"&", ",", "."}, neg |-> FALSE, min |-> 1, max |-> -1],
                [op |-> "save", g |-> 1, e |-> 1],
                [op |-> "match"]>>]),
    \* /vidyalankar[\s\w]*institute/i
    Indexed([ci |-> TRUE, ng |-> 0,
     prog |-> <<[op |-> "lit", s |-> <<"v","i","d","y","a","l","a","n","k","a","r">>],
                [op |-> "rep", cls |-> Space \cup Word, neg |-> FALSE, min |-> 0, max |-> -1],
                [op |-> "lit", s |-> <<"i","n","s","t","i","t","u","t","e">>],
                [op |-> "match"]>>]),
    \* /([A-Z][A-Za-z\s]+(?:TECHNOLOGY|ENGINEERING|COLLEGE|UNIVERSITY))/i
    Indexed([ci |-> TRUE, ng |-> 1,
     prog |-> <<[op |-> "save", g |-> 1, e |-> 0],
                [op |-> "rep", cls |-> Upper, neg |-> FALSE, min |-> 1, max |-> 1],
                [op |-> "rep", cls |-> Upper \cup Lower \cup Space, neg |-> FALSE, min |-> 1, max |-> -1],
                [op |-> "alt", ws |-> <<<<"T","E","C","H","N","O","L","O","G","Y">>, <<"E","N","G","I","N","E","E","R","I","N","G">>, <<"C","O","L","L","E","G","E">>, <<"U","N","I","V","E","R","S","I","T","Y">>>>],
                [op |-> "save", g |-> 1, e |-> 1],
                [op |-> "match"]>>])
    >>

\* patterns.courseName
patterns_courseName ==
    <<
    \* /(?:course|degree|program)[\s:]*([A-Za-z\s&.,]+)/i
    Indexed([ci |-> TRUE, ng |-> 1,
     prog |-> <<[op |-> "alt", ws |-> <<<<"c","o","u","r","s","e">>, <<"d","e","g","r","e","e">>, <<"p","r","o","g","r","a","m">>>>],
                [op |-> "rep", cls |-> Space \cup {":"}, neg |-> FALSE, min |-> 0, max |-> -1],
                [op |-> "save", g |-> 1, e |-> 0],
                [op |-> "rep", cls |-> Upper \cup Lower \cup Space \cup {"&", ",", "."}, neg |-> FALSE, min |-> 1, max |-> -1],
                [op |-> "save", g |-> 1, e |-> 1],
                [op |-> "match"]>>]),
    \* /(?:bachelor|master|diploma)[\s:]*of[\s:]*([A-Za-z\s&.,]+)/i
    Indexed([ci |-> TRUE, ng |-> 1,
     prog |-> <<[op |-> "alt", ws |-> <<<<"b","a","c","h","e","l","o","r">>, <<"m","a","s","t","e","r">>, <<"d","i","p","l","o","m","a">>>>],
                [op |-> "rep", cls |-> Space \cup {":"}, neg |-> FALSE, min |-> 0, max |-> -1],
                [op |-> "lit", s |-> <<"o","f">>],
                [op |-> "rep", cls |-> Space \cup {":"}, neg |-> FALSE, min |-> 0, max |-> -1],
                [op |-> "save", g |-> 1, e |-> 0],
                [op |-> "rep", cls |-> Upper \cup Lower \cup Space \cup {"&", ",", "."}, neg |-> FALSE, min |-> 1, max |-> -1],
                [op |-> "save", g |-> 1, e |-> 1],
                [op |-> "match"]>>]),
    \* /(?:in|for)[\s:]*([A-Za-z\s&.,]+)/i
    Indexed([ci |-> TRUE, ng |-> 1,
     prog |-> <<[op |-> "alt", ws |-> <<<<"i","n">>, <<"f","o","r">>>>],
                [op |-> "rep", cls |-> Space \cup {":"}, neg |-> FALSE, min |-> 0, max |-> -1],
                [op |-> "save", g |-> 1, e |-> 0],
                [op |-> "rep", cls |-> Upper \cup Lower \cup Space \cup {"&", ",", "."}, neg |-> FALSE, min |-> 1, max |-> -1],
                [op |-> "save", g |-> 1, e |-> 1],
                [op |-> "match"]>>]),
    \* /(?:computer|mechanical|electrical|civil|electronics)[\s]*(?:engineering|science)/i
    Indexed([ci |-> TRUE, ng |-> 0,
     prog |-> <<[op |-> "alt", ws |-> <<<<"c","o","m","p","u","t","e","r">>, <<"m","e","c","h","a","n","i","c","a","l">>, <<"e","l","e","c","t","r","i","c","a","l">>, <<"c","i","v","i","l">>, <<"e","l","e","c","t","r","o","n","i","c","s">>>>],
                [op |-> "rep", cls |-> Space, neg |-> FALSE, min |-> 0, max |-> -1],
                [op |-> "alt", ws |-> <<<<"e","n","g","i","n","e","e","r","i","n","g">>, <<"s","c","i","e","n","c","e">>>>],
                [op |-> "match"]>>]),
    \* /(?:undergraduate|graduate)[\s:]*([A-Za-z\s&.,]+)/i
    Indexed([ci |-> TRUE, ng |-> 1,
     prog |-> <<[op |-> "alt", ws |-> <<<<"u","n","d","e","r","g","r","a","d","u","a","t","e">>, <<"g","r","a","d","u","a","t","e">>>>],
                [op |-> "rep", cls |-> Space \cup {":"}, neg |-> FALSE, min |-> 0, max |-> -1],
                [op |-> "save", g |-> 1, e |-> 0],
                [op |-> "rep", cls |-> Upper \cup Lower \cup Space \cup {"&", ",", "."}, neg |-> FALSE, min |-> 1, max |-> -1],
                [op |-> "save", g |-> 1, e |-> 1],
                [op |-> "match"]>>])
    >>

\* patterns.marks
patterns_marks ==
    <<
    \* /(?:marks|grade|cgpa|percentage)[\s:]*([0-9.]+)/i
    Indexed([ci |-> TRUE, ng |-> 1,
     prog |-> <<[op |-> "alt", ws |-> <<<<"m","a","r","k","s">>, <<"g","r","a","d","e">>, <<"c","g","p","a">>, <<"p","e","r","c","e","n","t","a","g","e">>>>],
                [op |-> "rep", cls |-> Space \cup {":"}, neg |-> FALSE, min |-> 0, max |-> -1],
                [op |-> "save", g |-> 1, e |-> 0],
                [op |-> "rep", cls |-> Digit \cup {"."}, neg |-> FALSE, min |-> 1, max |-> -1],
                [op |-> "save", g |-> 1, e |-> 1],
                [op |-> "match"]>>]),
    \* /([0-9.]+)\s*(?:out of|\/|%)/
    Indexed([ci |-> FALSE, ng |-> 1,
     prog |-> <<[op |-> "save", g |-> 1, e |-> 0],
                [op |-> "rep", cls |-> Digit \cup {"."}, neg |-> FALSE, min |-> 1, max |-> -1],
                [op |-> "save", g |-> 1, e |-> 1],
                [op |-> "rep", cls |-> Space, neg |-> FALSE, min |-> 0, max |-> -1],
                [op |-> "alt", ws |-> <<<<"o","u","t"," ","o","f">>, <<"/">>, <<"%">>>>],
                [op |-> "match"]>>]),
    \* /(?:secured|obtained)[\s:]*([0-9.]+)/i
    Indexed([ci |-> TRUE, ng |-> 1,
     prog |-> <<[op |-> "alt", ws |-> <<<<"s","e","c","u","r","e","d">>, <<"o","b","t","a","i","n","e","d">>>>],
                [op |-> "rep", cls |-> Space \cup {":"}, neg |-> FALSE, min |-> 0, max |-> -1],
                [op |-> "save", g |-> 1, e |-> 0],
                [op |-> "rep", cls |-> Digit \cup {"."}, neg |-> FALSE, min |-> 1, max |-> -1],
                [op |-> "save", g |-> 1, e |-> 1],
                [op |-> "match"]>>]),
    \* /total[\s:]*([0-9,]+)/i
    Indexed([ci |-> TRUE, ng |-> 1,
     prog |-> <<[op |-> "lit", s |-> <<"t","o","t","a","l">>],
                [op |-> "rep", cls |-> Space \cup {":"}, neg |-> FALSE, min |-> 0, max |-> -1],
                [op |-> "save", g |-> 1, e |-> 0],
                [op |-> "rep", cls |-> Digit \cup {","}, neg |-> FALSE, min |-> 1, max |-> -1],
                [op |-> "save", g |-> 1, e |-> 1],
                [op |-> "match"]>>]),
    \* /([0-9]+[.,][0-9]+)/
    Indexed([ci |-> FALSE, ng |-> 1,
     prog |-> <<[op |-> "save", g |-> 1, e |-> 0],
                [op |-> "rep", cls |-> Digit, neg |-> FALSE, min |-> 1, max |-> -1],
                [op |-> "rep", cls |-> {",", "."}, neg |-> FALSE, min |-> 1, max |-> 1],
                [op |-> "rep", cls |-> Digit, neg |-> FALSE, min |-> 1, max |-> -1],
                [op |-> "save", g |-> 1, e |-> 1],
                [op |-> "match"]>>])
    >>

\* patterns.dateIssued
patterns_dateIssued ==
    <<
    \* /(?:date|issued|awarded)[\s:]*([0-9\/\-\.]+)/i
    Indexed([ci |-> TRUE, ng |-> 1,
     prog |-> <<[op |-> "alt", ws |-> <<<<"d","a","t","e">>, <<"i","s","s","u","e","d">>, <<"a","w","a","r","d","e","d">>>>],
                [op |-> "rep", cls |-> Space \cup {":"}, neg |-> FALSE, min |-> 0, max |-> -1],
                [op |-> "save", g |-> 1, e |-> 0],
                [op |-> "rep", cls |-> Digit \cup {"-", ".", "/"}, neg |-> FALSE, min |-> 1, max |-> -1],
                [op |-> "save", g |-> 1, e |-> 1],
                [op |-> "match"]>>]),
    \* /([0-9]{1,2}[\/\-\.][0-9]{1,2}[\/\-\.][0-9]{2,4})/
    Indexed([ci |-> FALSE, ng |-> 1,
     prog |-> <<[op |-> "save", g |-> 1, e |-> 0],
                [op |-> "rep", cls |-> Digit, neg |-> FALSE, min |-> 1, max |-> 2],
                [op |-> "rep", cls |-> {"-", ".", "/"}, neg |-> FALSE, min |-> 1, max |-> 1],
                [op |-> "rep", cls |-> Digit, neg |-> FALSE, min |-> 1, max |-> 2],
                [op |-> "rep", cls |-> {"-", ".", "/"}, neg |-> FALSE, min |-> 1, max |-> 1],
                [op |-> "rep", cls |-> Digit, neg |-> FALSE, min |-> 2, max |-> 4],
                [op |-> "save", g |-> 1, e |-> 1],
                [op |-> "match"]>>]),
    \* /(?:on)[\s:]*([0-9\/\-\.]+)/i
    Indexed([ci |-> TRUE, ng |-> 1,
     prog |-> <<[op |-> "lit", s |-> <<"o","n">>],
                [op |-> "rep", cls |-> Space \cup {":"}, neg |-> FALSE, min |-> 0, max |-> -1],
                [op |-> "save", g |-> 1, e |-> 0],
                [op |-> "rep", cls |-> Digit \cup {"-", ".", "/"}, neg |-> FALSE, min |-> 1, max |-> -1],
                [op |-> "save", g |-> 1, e |-> 1],
                [op |-> "match"]>>]),
    \* /(?:june|july|august|september|october|november|december|january|february|march|april|may)[\s,]*([0-9]{1,2}[,\s]*[0-9]{4})/i
    Indexed([ci |-> TRUE, ng |-> 1,
     prog |-> <<[op |-> "alt", ws |-> <<<<"j","u","n","e">>, <<"j","u","l","y">>, <<"a","u","g","u","s","t">>, <<"s","e","p","t","e","m","b","e","r">>, <<"o","c","t","o","b","e","r">>, <<"n","o","v","e","m","b","e","r">>, <<"d","e","c","e","m","b","e","r">>, <<"j","a","n","u","a","r","y">>, <<"f","e","b","r","u","a","r","y">>, <<"m","a","r","c","h">>, <<"a","p","r","i","l">>, <<"m","a","y">>>>],
                [op |-> "rep", cls |-> Space \cup {","}, neg |-> FALSE, min |-> 0, max |-> -1],
                [op |-> "save", g |-> 1, e |-> 0],
                [op |-> "rep", cls |-> Digit, neg |-> FALSE, min |-> 1, max |-> 2],
                [op |-> "rep", cls |-> Space \cup {","}, neg |-> FALSE, min |-> 0, max |-> -1],
                [op |-> "rep", cls |-> Digit, neg |-> FALSE, min |-> 4, max |-> 4],
                [op |-> "save", g |-> 1, e |-> 1],
                [op |-> "match"]>>]),
    \* /([0-9]{4})/
    Indexed([ci |-> FALSE, ng |-> 1,
     prog |-> <<[op |-> "save", g |-> 1, e |-> 0],
                [op |-> "rep", cls |-> Digit, neg |-> FALSE, min |-> 4, max |-> 4],
                [op |-> "save", g |-> 1, e |-> 1],
                [op |-> "match"]>>]),
    \* /(?:june|july|august|september|october|november|december|january|february|march|april|may)\s+([0-9]{1,2}),?\s+([0-9]{4})/i
    Indexed([ci |-> TRUE, ng |-> 2,
     prog |-> <<[op |-> "alt", ws |-> <<<<"j","u","n","e">>, <<"j","u","l","y">>, <<"a","u","g","u","s","t">>, <<"s","e","p","t","e","m","b","e","r">>, <<"o","c","t","o","b","e","r">>, <<"n","o","v","e","m","b","e","r">>, <<"d","e","c","e","m","b","e","r">>, <<"j","a","n","u","a","r","y">>, <<"f","e","b","r","u","a","r","y">>, <<"m","a","r","c","h">>, <<"a","p","r","i","l">>, <<"m","a","y">>>>],
                [op |-> "rep", cls |-> Space, neg |-> FALSE, min |-> 1, max |-> -1],
                [op |-> "save", g |-> 1, e |-> 0],
                [op |-> "rep", cls |-> Digit, neg |-> FALSE, min |-> 1, max |-> 2],
                [op |-> "save", g |-> 1, e |-> 1],
                [op |-> "split", x |-> 7, y |-> 8],
                [op |-> "lit", s |-> <<",">>],
                [op |-> "rep", cls |-> Space, neg |-> FALSE, min |-> 1, max |-> -1],
                [op |-> "save", g |-> 2, e |-> 0],
                [op |-> "rep", cls |-> Digit, neg |-> FALSE, min |-> 4, max |-> 4],
                [op |-> "save", g |-> 2, e |-> 1],
                [op |-> "match"]>>]),
    \* /([0-9]{1,2})\s+(?:june|july|august|september|october|november|december|january|february|march|april|may)\s+([0-9]{4})/i
    Indexed([ci |-> TRUE, ng |-> 2,
     prog |-> <<[op |-> "save", g |-> 1, e |-> 0],
                [op |-> "rep", cls |-> Digit, neg |-> FALSE, min |-> 1, max |-> 2],
                [op |-> "save", g |-> 1, e |-> 1],
                [op |-> "rep", cls |-> Space, neg |-> FALSE, min |-> 1, max |-> -1],
                [op |-> "alt", ws |-> <<<<"j","u","n","e">>, <<"j","u","l","y">>, <<"a","u","g","u","s","t">>, <<"s","e","p","t","e","m","b","e","r">>, <<"o","c","t","o","b","e","r">>, <<"n","o","v","e","m","b","e","r">>, <<"d","e","c","e","m","b","e","r">>, <<"j","a","n","u","a","r","y">>, <<"f","e","b","r","u","a","r","y">>, <<"m","a","r","c","h">>, <<"a","p","r","i","l">>, <<"m","a","y">>>>],
                [op |-> "rep", cls |-> Space, neg |-> FALSE, min |-> 1, max |-> -1],
                [op |-> "save", g |-> 2, e |-> 0],
                [op |-> "rep", cls |-> Digit, neg |-> FALSE, min |-> 4, max |-> 4],
                [op |-> "save", g |-> 2, e |-> 1],
                [op |-> "match"]>>]),
    \* /(?:june|july|august|september|october|november|december|january|february|march|april|may)\s+([0-9]{1,2}),\s+([0-9]{4})/i
    Indexed([ci |-> TRUE, ng |-> 2,
     prog |-> <<[op |-> "alt", ws |-> <<<<"j","u","n","e">>, <<"j","u","l","y">>, <<"a","u","g","u","s","t">>, <<"s","e","p","t","e","m","b","e","r">>, <<"o","c","t","o","b","e","r">>, <<"n","o","v","e","m","b","e","r">>, <<"d","e","c","e","m","b","e","r">>, <<"j","a","n","u","a","r","y">>, <<"f","e","b","r","u","a","r","y">>, <<"m","a","r","c","h">>, <<"a","p","r","i","l">>, <<"m","a","y">>>>],
                [op |-> "rep", cls |-> Space, neg |-> FALSE, min |-> 1, max |-> -1],
                [op |-> "save", g |-> 1, e |-> 0],
                [op |-> "rep", cls |-> Digit, neg |-> FALSE, min |-> 1, max |-> 2],
                [op |-> "save", g |-> 1, e |-> 1],
                [op |-> "lit", s |-> <<",">>],
                [op |-> "rep", cls |-> Space, neg |-> FALSE, min |-> 1, max |-> -1],
                [op |-> "save", g |-> 2, e |-> 0],
                [op |-> "rep", cls |-> Digit, neg |-> FALSE, min |-> 4, max |-> 4],
                [op |-> "save", g |-> 2, e |-> 1],
                [op |-> "match"]>>])
    >>

\* patterns.uin
patterns_uin ==
    <<
    \* /(?:uin|unique identification number)[\s:]*([A-Z0-9\-]+)/i
    Indexed([ci |-> TRUE, ng |-> 1,
     prog |-> <<[op |-> "alt", ws |-> <<<<"u","i","n">>, <<"u","n","i","q","u","e"," ","i","d","e","n","t","i","f","i","c","a","t","i","o","n"," ","n","u","m","b","e","r">>>>],
                [op |-> "rep", cls |-> Space \cup {":"}, neg |-> FALSE, min |-> 0, max |-> -1],
                [op |-> "save", g |-> 1, e |-> 0],
                [op |-> "rep", cls |-> Upper \cup Digit \cup {"-"}, neg |-> FALSE, min |-> 1, max |-> -1],
                [op |-> "save", g |-> 1, e |-> 1],
                [op |-> "match"]>>]),
    \* /(?:unique id|id)[\s:]*([A-Z0-9\-]+)/i
    Indexed([ci |-> TRUE, ng |-> 1,
     prog |-> <<[op |-> "alt", ws |-> <<<<"u","n","i","q","u","e"," ","i","d">>, <<"i","d">>>>],
                [op |-> "rep", cls |-> Space \cup {":"}, neg |-> FALSE, min |-> 0, max |-> -1],
                [op |-> "save", g |-> 1, e |-> 0],
                [op |-> "rep", cls |-> Upper \cup Digit \cup {"-"}, neg |-> FALSE, min |-> 1, max |-> -1],
                [op |-> "save", g |-> 1, e |-> 1],
                [op |-> "match"]>>]),
    \* /([A-Z0-9]{8,})/
    Indexed([ci |-> FALSE, ng |-> 1,
     prog |-> <<[op |-> "save", g |-> 1, e |-> 0],
                [op |-> "rep", cls |-> Upper \cup Digit, neg |-> FALSE, min |-> 8, max |-> -1],
                [op |-> "save", g |-> 1, e |-> 1],
                [op |-> "match"]>>])
    >>

\* formPatterns.studentRoll
formPatterns_studentRoll ==
    <<
    \* /student[\s]*roll[\s]*no[:\s]*([A-Z0-9\-]+)/i
    Indexed([ci |-> TRUE, ng |-> 1,
     prog |-> <<[op |-> "lit", s |-> <<"s","t","u","d","e","n","t">>],
                [op |-> "rep", cls |-> Space, neg |-> FALSE, min |-> 0, max |-> -1],
                [op |-> "lit", s |-> <<"r","o","l","l">>],
                [op |-> "rep", cls |-> Space, neg |-> FALSE, min |-> 0, max |-> -1],
                [op |-> "lit", s |-> <<"n","o">>],
                [op |-> "rep", cls |-> Space \cup {":"}, neg |-> FALSE, min |-> 0, max |-> -1],
                [op |-> "save", g |-> 1, e |-> 0],
                [op |-> "rep", cls |-> Upper \cup Digit \cup {"-"}, neg |-> FALSE, min |-> 1, max |-> -1],
                [op |-> "save", g |-> 1, e |-> 1],
                [op |-> "match"]>>]),
    \* /roll[\s]*no[:\s]*([A-Z0-9\-]+)/i
    Indexed([ci |-> TRUE, ng |-> 1,
     prog |-> <<[op |-> "lit", s |-> <<"r","o","l","l">>],
                [op |-> "rep", cls |-> Space, neg |-> FALSE, min |-> 0, max |-> -1],
                [op |-> "lit", s |-> <<"n","o">>],
                [op |-> "rep", cls |-> Space \cup {":"}, neg |-> FALSE, min |-> 0, max |-> -1],
                [op |-> "save", g |-> 1, e |-> 0],
                [op |-> "rep", cls |-> Upper \cup Digit \cup {"-"}, neg |-> FALSE, min |-> 1, max |-> -1],
                [op |-> "save", g |-> 1, e |-> 1],
                [op |-> "match"]>>]),
    \* /roll[\s]*number[:\s]*([A-Z0-9\-]+)/i
    Indexed([ci |-> TRUE, ng |-> 1,
     prog |-> <<[op |-> "lit", s |-> <<"r","o","l","l">>],
                [op |-> "rep", cls |-> Space, neg |-> FALSE, min |-> 0, max |-> -1],
                [op |-> "lit", s |-> <<"n","u","m","b","e","r">>],
                [op |-> "rep", cls |-> Space \cup {":"}, neg |-> FALSE, min |-> 0, max |-> -1],
                [op |-> "save", g |-> 1, e |-> 0],
                [op |-> "rep", cls |-> Upper \cup Digit \cup {"-"}, neg |-> FALSE, min |-> 1, max |-> -1],
                [op |-> "save", g |-> 1, e |-> 1],
                [op |-> "match"]>>])
    >>

\* formPatterns.studentName
formPatterns_studentName ==
    <<
    \* /student[\s]*name[:\s]*([A-Za-z\s]+(?:\([^)]+\))?)/i
    Indexed([ci |-> TRUE, ng |-> 1,
     prog |-> <<[op |-> "lit", s |-> <<"s","t","u","d","e","n","t">>],
                [op |-> "rep", cls |-> Space, neg |-> FALSE, min |-> 0, max |-> -1],
                [op |-> "lit", s |-> <<"n","a","m","e">>],
                [op |-> "rep", cls |-> Space \cup {":"}, neg |-> FALSE, min |-> 0, max |-> -1],
                [op |-> "save", g |-> 1, e |-> 0],
                [op |-> "rep", cls |-> Upper \cup Lower \cup Space, neg |-> FALSE, min |-> 1, max |-> -1],
                [op |-> "split", x |-> 8, y |-> 11],
                [op |-> "lit", s |-> <<"(">>],
                [op |-> "rep", cls |-> {")"}, neg |-> TRUE, min |-> 1, max |-> -1],
                [op |-> "lit", s |-> <<")">>],
                [op |-> "save", g |-> 1, e |-> 1],
                [op |-> "match"]>>]),
    \* /name[:\s]*([A-Za-z\s]+(?:\([^)]+\))?)/i
    Indexed([ci |-> TRUE, ng |-> 1,
     prog |-> <<[op |-> "lit", s |-> <<"n","a","m","e">>],
                [op |-> "rep", cls |-> Space \cup {":"}, neg |-> FALSE, min |-> 0, max |-> -1],
                [op |-> "save", g |-> 1, e |-> 0],
                [op |-> "rep", cls |-> Upper \cup Lower \cup Space, neg |-> FALSE, min |-> 1, max |-> -1],
                [op |-> "split", x |-> 6, y |-> 9],
                [op |-> "lit", s |-> <<"(">>],
                [op |-> "rep", cls |-> {")"}, neg |-> TRUE, min |-> 1, max |-> -1],
                [op |-> "lit", s |-> <<")">>],
                [op |-> "save", g |-> 1, e |-> 1],
                [op |-> "match"]>>]),
    \* /(?:mr\.|ms\.|mrs\.)\s*([A-Z][A-Z\s]+(?:PATIL|SINGH|KUMAR|SHARMA|GUPTA|VERMA|YADAV|AHMED|KHAN|ALI|JOSHI|MISHRA|TIWARI|MALIK|CHAUHAN|AGARWAL|JAIN|MEHTA|BANSAL|GOEL|ARORA|KAPOOR|REDDY|RAO|NAIDU|VENKAT|KRISHNA|RAM|LAKSHMI|DEVI|KUMARI))/i
    Indexed([ci |-> TRUE, ng |-> 1,
     prog |-> <<[op |-> "alt", ws |-> <<<<"m","r",".">>, <<"m","s",".">>, <<"m","r","s",".">>>>],
                [op |-> "rep", cls |-> Space, neg |-> FALSE, min |-> 0, max |-> -1],
                [op |-> "save", g |-> 1, e |-> 0],
                [op |-> "rep", cls |-> Upper, neg |-> FALSE, min |-> 1, max |-> 1],
                [op |-> "rep", cls |-> Upper \cup Space, neg |-> FALSE, min |-> 1, max |-> -1],
                [op |-> "alt", ws |-> <<<<"P","A","T","I","L">>, <<"S","I","N","G","H">>, <<"K","U","M","A","R">>, <<"S","H","A","R","M","A">>, <<"G","U","P","T","A">>, <<"V","E","R","M","A">>, <<"Y","A","D","A","V">>, <<"A","H","M","E","D">>, <<"K","H","A","N">>, <<"A","L","I">>, <<"J","O","S","H","I">>, <<"M","I","S","H","R","A">>, <<"T","I","W","A","R","I">>, <<"M","A","L","I","K">>, <<"C","H","A","U","H","A","N">>, <<"A","G","A","R","W","A","L">>, <<"J","A","I","N">>, <<"M","E","H","T","A">>, <<"B","A","N","S","A","L">>, <<"G","O","E","L">>, <<"A","R","O","R","A">>, <<"K","A","P","O","O","R">>, <<"R","E","D","D","Y">>, <<"R","A","O">>, <<"N","A","I","D","U">>, <<"V","E","N","K","A","T">>, <<"K","R","I","S","H","N","A">>, <<"R","A","M">>, <<"L","A","K","S","H","M","I">>, <<"D","E","V","I">>, <<"K","U","M","A","R","I">>>>],
                [op |-> "save", g |-> 1, e |-> 1],
                [op |-> "match"]>>])
    >>

\* formPatterns.institutionName
formPatterns_institutionName ==
    <<
    \* /institution[:\s]*([A-Za-z\s&.,]+)/i
    Indexed([ci |-> TRUE, ng |-> 1,
     prog |-> <<[op |-> "lit", s |-> <<"i","n","s","t","i","t","u","t","i","o","n">>],
                [op |-> "rep", cls |-> Space \cup {":"}, neg |-> FALSE, min |-> 0, max |-> -1],
                [op |-> "save", g |-> 1, e |-> 0],
                [op |-> "rep", cls |-> Upper \cup Lower \cup Space \cup {"&", ",", "."}, neg |-> FALSE, min |-> 1, max |-> -1],
                [op |-> "save", g |-> 1, e |-> 1],
                [op |-> "match"]>>]),
    \* /college[:\s]*([A-Za-z\s&.,]+)/i
    Indexed([ci |-> TRUE, ng |-> 1,
     prog |-> <<[op |-> "lit", s |-> <<"c","o","l","l","e","g","e">>],
                [op |-> "rep", cls |-> Space \cup {":"}, neg |-> FALSE, min |-> 0, max |-> -1],
                [op |-> "save", g |-> 1, e |-> 0],
                [op |-> "rep", cls |-> Upper \cup Lower \cup Space \cup {"&", ",", "."}, neg |-> FALSE, min |-> 1, max |-> -1],
                [op |-> "save", g |-> 1, e |-> 1],
                [op |-> "match"]>>]),
    \* /university[:\s]*([A-Za-z\s&.,]+)/i
    Indexed([ci |-> TRUE, ng |-> 1,
     prog |-> <<[op |-> "lit", s |-> <<"u","n","i","v","e","r","s","i","t","y">>],
                [op |-> "rep", cls |-> Space \cup {":"}, neg |-> FALSE, min |-> 0, max |-> -1],
                [op |-> "save", g |-> 1, e |-> 0],
                [op |-> "rep", cls |-> Upper \cup Lower \cup Space \cup {"&", ",", "."}, neg |-> FALSE, min |-> 1, max |-> -1],
                [op |-> "save", g |-> 1, e |-> 1],
                [op |-> "match"]>>]),
    \* /vidyalankar[\s\w]*institute[\s\w]*technology/i
    Indexed([ci |-> TRUE, ng |-> 0,
     prog |-> <<[op |-> "lit", s |-> <<"v","i","d","y","a","l","a","n","k","a","r">>],
                [op |-> "rep", cls |-> Space \cup Word, neg |-> FALSE, min |-> 0, max |-> -1],
                [op |-> "lit", s |-> <<"i","n","s","t","i","t","u","t","e">>],
                [op |-> "rep", cls |-> Space \cup Word, neg |-> FALSE, min |-> 0, max |-> -1],
                [op |-> "lit", s |-> <<"t","e","c","h","n","o","l","o","g","y">>],
                [op |-> "match"]>>])
    >>

\* formPatterns.dateIssued
formPatterns_dateIssued ==
    <<
    \* /issue[\s]*date[:\s]*([0-9\/\-\.]+)/i
    Indexed([ci |-> TRUE, ng |-> 1,
     prog |-> <<[op |-> "lit", s |-> <<"i","s","s","u","e">>],
                [op |-> "rep", cls |-> Space, neg |-> FALSE, min |-> 0, max |-> -1],
                [op |-> "lit", s |-> <<"d","a","t","e">>],
                [op |-> "rep", cls |-> Space \cup {":"}, neg |-> FALSE, min |-> 0, max |-> -1],
                [op |-> "save", g |-> 1, e |-> 0],
                [op |-> "rep", cls |-> Digit \cup {"-", ".", "/"}, neg |-> FALSE, min |-> 1, max |-> -1],
                [op |-> "save", g |-> 1, e |-> 1],
                [op |-> "match"]>>]),
    \* /date[:\s]*([0-9\/\-\.]+)/i
    Indexed([ci |-> TRUE, ng |-> 1,
     prog |-> <<[op |-> "lit", s |-> <<"d","a","t","e">>],
                [op |-> "rep", cls |-> Space \cup {":"}, neg |-> FALSE, min |-> 0, max |-> -1],
                [op |-> "save", g |-> 1, e |-> 0],
                [op |-> "rep", cls |-> Digit \cup {"-", ".", "/"}, neg |-> FALSE, min |-> 1, max |-> -1],
                [op |-> "save", g |-> 1, e |-> 1],
                [op |-> "match"]>>]),
    \* /(?:june|july|august|september|october|november|december|january|february|march|april|may)[\s,]*([0-9]{1,2}[,\s]*[0-9]{4})/i
    Indexed([ci |-> TRUE, ng |-> 1,
     prog |-> <<[op |-> "alt", ws |-> <<<<"j","u","n","e">>, <<"j","u","l","y">>, <<"a","u","g","u","s","t">>, <<"s","e","p","t","e","m","b","e","r">>, <<"o","c","t","o","b","e","r">>, <<"n","o","v","e","m","b","e","r">>, <<"d","e","c","e","m","b","e","r">>, <<"j","a","n","u","a","r","y">>, <<"f","e","b","r","u","a","r","y">>, <<"m","a","r","c","h">>, <<"a","p","r","i","l">>, <<"m","a","y">>>>],
                [op |-> "rep", cls |-> Space \cup {","}, neg |-> FALSE, min |-> 0, max |-> -1],
                [op |-> "save", g |-> 1, e |-> 0],
                [op |-> "rep", cls |-> Digit, neg |-> FALSE, min |-> 1, max |-> 2],
                [op |-> "rep", cls |-> Space \cup {","}, neg |-> FALSE, min |-> 0, max |-> -1],
                [op |-> "rep", cls |-> Digit, neg |-> FALSE, min |-> 4, max |-> 4],
                [op |-> "save", g |-> 1, e |-> 1],
                [op |-> "match"]>>]),
    \* /(?:june|july|august|september|october|november|december|january|february|march|april|may)\s+([0-9]{1,2}),\s+([0-9]{4})/i
    Indexed([ci |-> TRUE, ng |-> 2,
     prog |-> <<[op |-> "alt", ws |-> <<<<"j","u","n","e">>, <<"j","u","l","y">>, <<"a","u","g","u","s","t">>, <<"s","e","p","t","e","m","b","e","r">>, <<"o","c","t","o","b","e","r">>, <<"n","o","v","e","m","b","e","r">>, <<"d","e","c","e","m","b","e","r">>, <<"j","a","n","u","a","r","y">>, <<"f","e","b","r","u","a","r","y">>, <<"m","a","r","c","h">>, <<"a","p","r","i","l">>, <<"m","a","y">>>>],
                [op |-> "rep", cls |-> Space, neg |-> FALSE, min |-> 1, max |-> -1],
                [op |-> "save", g |-> 1, e |-> 0],
                [op |-> "rep", cls |-> Digit, neg |-> FALSE, min |-> 1, max |-> 2],
                [op |-> "save", g |-> 1, e |-> 1],
                [op |-> "lit", s |-> <<",">>],
                [op |-> "rep", cls |-> Space, neg |-> FALSE, min |-> 1, max |-> -1],
                [op |-> "save", g |-> 2, e |-> 0],
                [op |-> "rep", cls |-> Digit, neg |-> FALSE, min |-> 4, max |-> 4],
                [op |-> "save", g |-> 2, e |-> 1],
                [op |-> "match"]>>]),
    \* /([0-9]{1,2})\s+(?:june|july|august|september|october|november|december|january|february|march|april|may)\s+([0-9]{4})/i
    Indexed([ci |-> TRUE, ng |-> 2,
     prog |-> <<[op |-> "save", g |-> 1, e |-> 0],
                [op |-> "rep", cls |-> Digit, neg |-> FALSE, min |-> 1, max |-> 2],
                [op |-> "save", g |-> 1, e |-> 1],
                [op |-> "rep", cls |-> Space, neg |-> FALSE, min |-> 1, max |-> -1],
                [op |-> "alt", ws |-> <<<<"j","u","n","e">>, <<"j","u","l","y">>, <<"a","u","g","u","s","t">>, <<"s","e","p","t","e","m","b","e","r">>, <<"o","c","t","o","b","e","r">>, <<"n","o","v","e","m","b","e","r">>, <<"d","e","c","e","m","b","e","r">>, <<"j","a","n","u","a","r","y">>, <<"f","e","b","r","u","a","r","y">>, <<"m","a","r","c","h">>, <<"a","p","r","i","l">>, <<"m","a","y">>>>],
                [op |-> "rep", cls |-> Space, neg |-> FALSE, min |-> 1, max |-> -1],
                [op |-> "save", g |-> 2, e |-> 0],
                [op |-> "rep", cls |-> Digit, neg |-> FALSE, min |-> 4, max |-> 4],
                [op |-> "save", g |-> 2, e |-> 1],
                [op |-> "match"]>>])
    >>

\* formPatterns.certificateNumber
formPatterns_certificateNumber ==
    <<
    \* /receipt[\s]*no[:\s]*([0-9]+)/i
    Indexed([ci |-> TRUE, ng |-> 1,
     prog |-> <<[op |-> "lit", s |-> <<"r","e","c","e","i","p","t">>],
                [op |-> "rep", cls |-> Space, neg |-> FALSE, min |-> 0, max |-> -1],
                [op |-> "lit", s |-> <<"n","o">>],
                [op |-> "rep", cls |-> Space \cup {":"}, neg |-> FALSE, min |-> 0, max |-> -1],
                [op |-> "save", g |-> 1, e |-> 0],
                [op |-> "rep", cls |-> Digit, neg |-> FALSE, min |-> 1, max |-> -1],
                [op |-> "save", g |-> 1, e |-> 1],
                [op |-> "match"]>>]),
    \* /certificate[\s]*no[:\s]*([A-Z0-9\-]+)/i
    Indexed([ci |-> TRUE, ng |-> 1,
     prog |-> <<[op |-> "lit", s |-> <<"c","e","r","t","i","f","i","c","a","t","e">>],
                [op |-> "rep", cls |-> Space, neg |-> FALSE, min |-> 0, max |-> -1],
                [op |-> "lit", s |-> <<"n","o">>],
                [op |-> "rep", cls |-> Space \cup {":"}, neg |-> FALSE, min |-> 0, max |-> -1],
                [op |-> "save", g |-> 1, e |-> 0],
                [op |-> "rep", cls |-> Upper \cup Digit \cup {"-"}, neg |-> FALSE, min |-> 1, max |-> -1],
                [op |-> "save", g |-> 1, e |-> 1],
                [op |-> "match"]>>]),
    \* /certificate[\s]*number[:\s]*([A-Z0-9\-]+)/i
    Indexed([ci |-> TRUE, ng |-> 1,
     prog |-> <<[op |-> "lit", s |-> <<"c","e","r","t","i","f","i","c","a","t","e">>],
                [op |-> "rep", cls |-> Space, neg |-> FALSE, min |-> 0, max |-> -1],
                [op |-> "lit", s |-> <<"n","u","m","b","e","r">>],
                [op |-> "rep", cls |-> Space \cup {":"}, neg |-> FALSE, min |-> 0, max |-> -1],
                [op |-> "save", g |-> 1, e |-> 0],
                [op |-> "rep", cls |-> Upper \cup Digit \cup {"-"}, neg |-> FALSE, min |-> 1, max |-> -1],
                [op |-> "save", g |-> 1, e |-> 1],
                [op |-> "match"]>>])
    >>

\* the character replaced by a space in the cleaning step (g flag)
\* /[^\w\s\-.,\/:()]/
reDisallowed ==
    Indexed([ci |-> FALSE, ng |-> 0,
     prog |-> <<[op |-> "rep", cls |-> Word \cup Space \cup {"(", ")", ",", "-", ".", "/", ":"}, neg |-> TRUE, min |-> 1, max |-> 1],
                [op |-> "match"]>>])

\* a run of whitespace, collapsed to one space (g flag)
\* /\s+/
reWhitespace ==
    Indexed([ci |-> FALSE, ng |-> 0,
     prog |-> <<[op |-> "rep", cls |-> Space, neg |-> FALSE, min |-> 1, max |-> -1],
                [op |-> "match"]>>])

\* studentName cleanup: trailing parentheses
\* /\([^)]*\)$/
reTrailingParens ==
    Indexed([ci |-> FALSE, ng |-> 0,
     prog |-> <<[op |-> "lit", s |-> <<"(">>],
                [op |-> "rep", cls |-> {")"}, neg |-> TRUE, min |-> 0, max |-> -1],
                [op |-> "lit", s |-> <<")">>],
                [op |-> "eol"],
                [op |-> "match"]>>])

\* studentName cleanup: titles
\* /^(mr\.|ms\.|mrs\.)\s*/i
reTitle ==
    Indexed([ci |-> TRUE, ng |-> 1,
     prog |-> <<[op |-> "bol"],
                [op |-> "save", g |-> 1, e |-> 0],
                [op |-> "alt", ws |-> <<<<"m","r",".">>, <<"m","s",".">>, <<"m","r","s",".">>>>],
                [op |-> "save", g |-> 1, e |-> 1],
                [op |-> "rep", cls |-> Space, neg |-> FALSE, min |-> 0, max |-> -1],
                [op |-> "match"]>>])

\* dateIssued cleanup: separator of split
\* /[\s,]+/
reDateSplit ==
    Indexed([ci |-> FALSE, ng |-> 0,
     prog |-> <<[op |-> "rep", cls |-> Space \cup {","}, neg |-> FALSE, min |-> 1, max |-> -1],
                [op |-> "match"]>>])

\* dateIssued cleanup: day and year keep digits only (g flag)
\* /\D/
reNonDigit ==
    Indexed([ci |-> FALSE, ng |-> 0,
     prog |-> <<[op |-> "rep", cls |-> Digit, neg |-> TRUE, min |-> 1, max |-> 1],
                [op |-> "match"]>>])

\* dateIssued cleanup: keep only date characters (g flag)
\* /[^\d\/\-\.]/
reNonDateChar ==
    Indexed([ci |-> FALSE, ng |-> 0,
     prog |-> <<[op |-> "rep", cls |-> Digit \cup {"-", ".", "/"}, neg |-> TRUE, min |-> 1, max |-> 1],
                [op |-> "match"]>>])

\* marks cleanup (g flag)
\* /[^\d.]/
reNonMarkChar ==
    Indexed([ci |-> FALSE, ng |-> 0,
     prog |-> <<[op |-> "rep", cls |-> Digit \cup {"."}, neg |-> TRUE, min |-> 1, max |-> 1],
                [op |-> "match"]>>])

\* studentRoll and certificateNumber cleanup (g flag)
\* /[^A-Z0-9\-]/
reNonRollChar ==
    Indexed([ci |-> FALSE, ng |-> 0,
     prog |-> <<[op |-> "rep", cls |-> Upper \cup Digit \cup {"-"}, neg |-> TRUE, min |-> 1, max |-> 1],
                [op |-> "match"]>>])

\* generic roll fallback
\* /([A-Z0-9]{8,12})/
reRollFallback ==
    Indexed([ci |-> FALSE, ng |-> 1,
     prog |-> <<[op |-> "save", g |-> 1, e |-> 0],
                [op |-> "rep", cls |-> Upper \cup Digit, neg |-> FALSE, min |-> 8, max |-> 12],
                [op |-> "save", g |-> 1, e |-> 1],
                [op |-> "match"]>>])

\* generic institution fallback
\* /([A-Za-z\s]+(?:institute|college|university|school))/i
reInstFallback ==
    Indexed([ci |-> TRUE, ng |-> 1,
     prog |-> <<[op |-> "save", g |-> 1, e |-> 0],
                [op |-> "rep", cls |-> Upper \cup Lower \cup Space, neg |-> FALSE, min |-> 1, max |-> -1],
                [op |-> "alt", ws |-> <<<<"i","n","s","t","i","t","u","t","e">>, <<"c","o","l","l","e","g","e">>, <<"u","n","i","v","e","r","s","i","t","y">>, <<"s","c","h","o","o","l">>>>],
                [op |-> "save", g |-> 1, e |-> 1],
                [op |-> "match"]>>])

\* receipt-name fallback
\* /(?:mr\.|ms\.|mrs\.)\s*([A-Z][A-Z\s]+(?:PATIL|SINGH|KUMAR|SHARMA|GUPTA|VERMA|YADAV|AHMED|KHAN|ALI|JOSHI|MISHRA|TIWARI|MALIK|CHAUHAN|AGARWAL|JAIN|MEHTA|BANSAL|GOEL|ARORA|KAPOOR|REDDY|RAO|NAIDU|VENKAT|KRISHNA|RAM|LAKSHMI|DEVI|KUMARI))/i
reReceiptName ==
    Indexed([ci |-> TRUE, ng |-> 1,
     prog |-> <<[op |-> "alt", ws |-> <<<<"m","r",".">>, <<"m","s",".">>, <<"m","r","s",".">>>>],
                [op |-> "rep", cls |-> Space, neg |-> FALSE, min |-> 0, max |-> -1],
                [op |-> "save", g |-> 1, e |-> 0],
                [op |-> "rep", cls |-> Upper, neg |-> FALSE, min |-> 1, max |-> 1],
                [op |-> "rep", cls |-> Upper \cup Space, neg |-> FALSE, min |-> 1, max |-> -1],
                [op |-> "alt", ws |-> <<<<"P","A","T","I","L">>, <<"S","I","N","G","H">>, <<"K","U","M","A","R">>, <<"S","H","A","R","M","A">>, <<"G","U","P","T","A">>, <<"V","E","R","M","A">>, <<"Y","A","D","A","V">>, <<"A","H","M","E","D">>, <<"K","H","A","N">>, <<"A","L","I">>, <<"J","O","S","H","I">>, <<"M","I","S","H","R","A">>, <<"T","I","W","A","R","I">>, <<"M","A","L","I","K">>, <<"C","H","A","U","H","A","N">>, <<"A","G","A","R","W","A","L">>, <<"J","A","I","N">>, <<"M","E","H","T","A">>, <<"B","A","N","S","A","L">>, <<"G","O","E","L">>, <<"A","R","O","R","A">>, <<"K","A","P","O","O","R">>, <<"R","E","D","D","Y">>, <<"R","A","O">>, <<"N","A","I","D","U">>, <<"V","E","N","K","A","T">>, <<"K","R","I","S","H","N","A">>, <<"R","A","M">>, <<"L","A","K","S","H","M","I">>, <<"D","E","V","I">>, <<"K","U","M","A","R","I">>>>],
                [op |-> "save", g |-> 1, e |-> 1],
                [op |-> "match"]>>])

\* receipt-name fallback: trailing parentheses
\* /\s*\([^)]*\)$/
reReceiptParens ==
    Indexed([ci |-> FALSE, ng |-> 0,
     prog |-> <<[op |-> "rep", cls |-> Space, neg |-> FALSE, min |-> 0, max |-> -1],
                [op |-> "lit", s |-> <<"(">>],
                [op |-> "rep", cls |-> {")"}, neg |-> TRUE, min |-> 0, max |-> -1],
                [op |-> "lit", s |-> <<")">>],
                [op |-> "eol"],
                [op |-> "match"]>>])

\* receipt-date fallback
\* /(?:june|july|august|september|october|november|december|january|february|march|april|may)\s+([0-9]{1,2}),\s+([0-9]{4})/i
reReceiptDate ==
    Indexed([ci |-> TRUE, ng |-> 2,
     prog |-> <<[op |-> "alt", ws |-> <<<<"j","u","n","e">>, <<"j","u","l","y">>, <<"a","u","g","u","s","t">>, <<"s","e","p","t","e","m","b","e","r">>, <<"o","c","t","o","b","e","r">>, <<"n","o","v","e","m","b","e","r">>, <<"d","e","c","e","m","b","e","r">>, <<"j","a","n","u","a","r","y">>, <<"f","e","b","r","u","a","r","y">>, <<"m","a","r","c","h">>, <<"a","p","r","i","l">>, <<"m","a","y">>>>],
                [op |-> "rep", cls |-> Space, neg |-> FALSE, min |-> 1, max |-> -1],
                [op |-> "save", g |-> 1, e |-> 0],
                [op |-> "rep", cls |-> Digit, neg |-> FALSE, min |-> 1, max |-> 2],
                [op |-> "save", g |-> 1, e |-> 1],
                [op |-> "lit", s |-> <<",">>],
                [op |-> "rep", cls |-> Space, neg |-> FALSE, min |-> 1, max |-> -1],
                [op |-> "save", g |-> 2, e |-> 0],
                [op |-> "rep", cls |-> Digit, neg |-> FALSE, min |-> 4, max |-> 4],
                [op |-> "save", g |-> 2, e |-> 1],
                [op |-> "match"]>>])

\* form-field fallback: hasValidSurname
\* /PATIL|SINGH|KUMAR|SHARMA|GUPTA|VERMA|YADAV|AHMED|KHAN|ALI|JOSHI|MISHRA|TIWARI|MALIK|CHAUHAN|AGARWAL|JAIN|MEHTA|BANSAL|GOEL|ARORA|KAPOOR|REDDY|RAO|NAIDU|VENKAT|KRISHNA|RAM|LAKSHMI|DEVI|KUMARI/i
reValidSurname ==
    Indexed([ci |-> TRUE, ng |-> 0,
     prog |-> <<[op |-> "alt", ws |-> <<<<"P","A","T","I","L">>, <<"S","I","N","G","H">>, <<"K","U","M","A","R">>, <<"S","H","A","R","M","A">>, <<"G","U","P","T","A">>, <<"V","E","R","M","A">>, <<"Y","A","D","A","V">>, <<"A","H","M","E","D">>, <<"K","H","A","N">>, <<"A","L","I">>, <<"J","O","S","H","I">>, <<"M","I","S","H","R","A">>, <<"T","I","W","A","R","I">>, <<"M","A","L","I","K">>, <<"C","H","A","U","H","A","N">>, <<"A","G","A","R","W","A","L">>, <<"J","A","I","N">>, <<"M","E","H","T","A">>, <<"B","A","N","S","A","L">>, <<"G","O","E","L">>, <<"A","R","O","R","A">>, <<"K","A","P","O","O","R">>, <<"R","E","D","D","Y">>, <<"R","A","O">>, <<"N","A","I","D","U">>, <<"V","E","N","K","A","T">>, <<"K","R","I","S","H","N","A">>, <<"R","A","M">>, <<"L","A","K","S","H","M","I">>, <<"D","E","V","I">>, <<"K","U","M","A","R","I">>>>],
                [op |-> "match"]>>])

\* institutionWords
institutionWords ==
    <<<<"i","n","s","t","i","t","u","t","e">>,
      <<"c","o","l","l","e","g","e">>,
      <<"u","n","i","v","e","r","s","i","t","y">>,
      <<"t","e","c","h","n","o","l","o","g","y">>,
      <<"s","c","h","o","o","l">>,
      <<"a","c","a","d","e","m","y">>,
      <<"v","i","d","y","a","l","a","n","k","a","r">>,
      <<"e","n","g","i","n","e","e","r","i","n","g">>>>

\* monthNames
monthNames ==
    <<<<"j","a","n","u","a","r","y">>,
      <<"f","e","b","r","u","a","r","y">>,
      <<"m","a","r","c","h">>,
      <<"a","p","r","i","l">>,
      <<"m","a","y">>,
      <<"j","u","n","e">>,
      <<"j","u","l","y">>,
      <<"a","u","g","u","s","t">>,
      <<"s","e","p","t","e","m","b","e","r">>,
      <<"o","c","t","o","b","e","r">>,
      <<"n","o","v","e","m","b","e","r">>,
      <<"d","e","c","e","m","b","e","r">>>>

\* ------------------------------------------------------------------------
\* String operations of the source
\* ------------------------------------------------------------------------
RECURSIVE trimStart(_)
trimStart(s) ==
    IF Len(s) > 0 /\ s[1] \in Space THEN trimStart(Tail(s)) ELSE s

RECURSIVE trimEnd(_)
trimEnd(s) ==
    IF Len(s) > 0 /\ s[Len(s)] \in Space
    THEN trimEnd(SubSeq(s, 1, Len(s) - 1))
    ELSE s

\* String.prototype.trim
trim(s) == trimEnd(trimStart(s))

\* String.prototype.includes
includes(s, sub) == \E p \in 1..(Len(s) + 1) : LitAt(s, p, sub, FALSE)

RECURSIVE ReplaceAllFrom(_, _, _, _)
\* the text from position p on with the match m, the first at p or later,
\* and every later match replaced (an empty match advances by one character)
ReplaceMatches(re, t, repl, p, m) ==
    IF ~m.ok THEN SubSeq(t, p, Len(t))
    ELSE IF m.e > m.s
         THEN SubSeq(t, p, m.s - 1) \o repl \o ReplaceAllFrom(re, t, repl, m.e)
         ELSE IF m.s > Len(t) THEN SubSeq(t, p, Len(t)) \o repl
         ELSE SubSeq(t, p, m.s - 1) \o repl \o <<t[m.s]>>
                 \o ReplaceAllFrom(re, t, repl, m.s + 1)

ReplaceAllFrom(re, t, repl, p) ==
    ReplaceMatches(re, t, repl, p, SearchFrom(re, t, p))

\* String.prototype.replace with a g-flagged regular expression
ReplaceAll(re, t, repl) == ReplaceAllFrom(re, t, repl, 1)

\* the text with the match m, if there is one, replaced
ReplaceMatch(t, repl, m) ==
    IF m.ok
    THEN SubSeq(t, 1, m.s - 1) \o repl \o SubSeq(t, m.e, Len(t))
    ELSE t

\* String.prototype.replace with a regular expression without the g flag
ReplaceFirst(re, t, repl) == ReplaceMatch(t, repl, Search(re, t))

RECURSIVE SplitFrom(_, _, _, _)
\* the pieces of the text from position p on, m the first separator match
\* at the search position or later (an empty match separates nothing)
SplitAt(re, t, p, m) ==
    IF ~m.ok \/ m.s > Len(t) THEN <<SubSeq(t, p, Len(t))>>
    ELSE IF m.e = m.s THEN SplitFrom(re, t, p, m.s + 1)
    ELSE <<SubSeq(t, p, m.s - 1)>> \o SplitFrom(re, t, m.e, m.e)

SplitFrom(re, t, p, q) == SplitAt(re, t, p, SearchFrom(re, t, q))

\* String.prototype.split with a separator pattern
split(t, re) == SplitFrom(re, t, 1, 1)

\* the separator string sep as a pattern
Literal(sep) ==
    [ci |-> FALSE, ng |-> 0, prog |-> <<[op |-> "lit", s |-> sep], [op |-> "match"]>>]

RECURSIVE join(_, _)
\* Array.prototype.join
join(words, sep) ==
    IF Len(words) = 0 THEN <<>>
    ELSE IF Len(words) = 1 THEN words[1]
    ELSE words[1] \o sep \o join(Tail(words), sep)

DigitSeq == <<"0","1","2","3","4","5","6","7","8","9">>

RECURSIVE String(_)
\* String(n) of a natural number
String(n) ==
    IF n < 10 THEN <<DigitSeq[n + 1]>>
    ELSE String(n \div 10) \o <<DigitSeq[(n % 10) + 1]>>

RECURSIVE padStart(_, _, _)
\* String.prototype.padStart with a one-character filler
padStart(s, n, c) == IF Len(s) >= n THEN s ELSE padStart(<<c>> \o s, n, c)

\* the least element of a non-empty set of integers
Least(hits) == CHOOSE i \in hits : \A j \in hits : i <= j

\* monthNames.findIndex(month => s.includes(month)): 0-based, -1 when no
\* month name occurs in s
findMonth(s) ==
    IF \E i \in DOMAIN monthNames : includes(s, monthNames[i])
    THEN Least({i \in DOMAIN monthNames : includes(s, monthNames[i])}) - 1
    ELSE -1

\* ------------------------------------------------------------------------
\* The record ParsedData: a function whose domain is the set of attributes
\* that are present
\* ------------------------------------------------------------------------
Fields ==
    {"studentName", "studentRoll", "certificateNumber", "institutionName",
     "courseName", "marks", "dateIssued", "uin"}

EmptyRecord == [f \in {} |-> <<>>]

\* extracted[field] = value
Put(extracted, field, value) ==
    [f \in (DOMAIN extracted) \cup {field} |->
        IF f = field THEN value ELSE extracted[f]]

\* the truthiness of extracted[field]: present and not the empty string
Truthy(extracted, field) ==
    field \in DOMAIN extracted /\ Len(extracted[field]) > 0

\* ------------------------------------------------------------------------
\* parseCertificateText
\* ------------------------------------------------------------------------
\* the cleaning with whitespace collapsed before the disallowed characters
\* are replaced
cleanTextCollapseFirst(text) ==
    trim(ReplaceAll(reDisallowed, ReplaceAll(reWhitespace, text, <<" ">>), <<" ">>))

\* the cleaning without the collapse of whitespace
cleanTextNoCollapse(text) == trim(ReplaceAll(reDisallowed, text, <<" ">>))

cleanText(text) ==
    trim(ReplaceAll(reWhitespace, ReplaceAll(reDisallowed, text, <<" ">>), <<" ">>))

\* the non-empty ones of the trimmed pieces
nonEmptyLines(parts) ==
    LET NonEmpty(line) == Len(line) > 0
    IN SelectSeq([i \in DOMAIN parts |-> trim(parts[i])], NonEmpty)

splitLines(cleanedText) == nonEmptyLines(split(cleanedText, Literal(<<"\n">>)))

\* the patterns with only the first three date patterns (numeric dates)
patternsNumericDatesOnly ==
    [studentName |-> patterns_studentName,
     studentRoll |-> patterns_studentRoll,
     certificateNumber |-> patterns_certificateNumber,
     institutionName |-> patterns_institutionName,
     courseName |-> patterns_courseName,
     marks |-> patterns_marks,
     dateIssued |-> SubSeq(patterns_dateIssued, 1, 3),
     uin |-> patterns_uin]

patterns ==
    [studentName |-> patterns_studentName,
     studentRoll |-> patterns_studentRoll,
     certificateNumber |-> patterns_certificateNumber,
     institutionName |-> patterns_institutionName,
     courseName |-> patterns_courseName,
     marks |-> patterns_marks,
     dateIssued |-> patterns_dateIssued,
     uin |-> patterns_uin]

\* the order of Object.entries(patterns)
patternFields ==
    <<"studentName", "studentRoll", "certificateNumber", "institutionName",
      "courseName", "marks", "dateIssued", "uin">>

\* the filter with its test inverted: the words that contain an institution
\* word, joined again
filterInstitutionWordsInverted(value) ==
    LET Keep(word) ==
            \E i \in DOMAIN institutionWords :
                includes(toLowerCase(word), toLowerCase(institutionWords[i]))
    IN trim(join(SelectSeq(split(value, Literal(<<" ">>)), Keep), <<" ">>))

\* the words of value joined again, none of them filtered out
filterInstitutionWordsNone(value) ==
    trim(join(split(value, Literal(<<" ">>)), <<" ">>))

\* the words of value that contain no institution word, joined again
filterInstitutionWords(value) ==
    LET Keep(word) ==
            ~ \E i \in DOMAIN institutionWords :
                  includes(toLowerCase(word), toLowerCase(institutionWords[i]))
    IN trim(join(SelectSeq(split(value, Literal(<<" ">>)), Keep), <<" ">>))

cleanStudentName(value) ==
    filterInstitutionWords(
        ReplaceFirst(reTitle, trim(ReplaceFirst(reTrailingParens, value, <<>>)), <<>>))

\* `${day}/${(monthIndex + 1).toString().padStart(2, '0')}/${year}`
formatDate(day, monthIndex, year) ==
    day \o <<"/">> \o padStart(String(monthIndex + 1), 2, "0") \o <<"/">> \o year

\* the date of a month-name value split into parts, monthIndex the index
\* of the month found in its first part
dateOfMonth(value, parts, monthIndex) ==
    IF monthIndex # -1
    THEN formatDate(ReplaceAll(reNonDigit, parts[2], <<>>), monthIndex,
                    ReplaceAll(reNonDigit, parts[3], <<>>))
    ELSE value

\* the conversion of a value that holds a comma, split into parts
dateOfParts(value, parts) ==
    IF Len(parts) >= 3 THEN dateOfMonth(value, parts, findMonth(parts[1]))
    ELSE value

\* the date clean-up keeping digits only
cleanDateIssuedDigitsOnly(value) ==
    IF includes(value, <<",">>)
    THEN dateOfParts(value, split(toLowerCase(value), reDateSplit))
    ELSE ReplaceAll(reNonDigit, value, <<>>)

cleanDateIssued(value) ==
    IF includes(value, <<",">>)
    THEN dateOfParts(value, split(toLowerCase(value), reDateSplit))
    ELSE ReplaceAll(reNonDateChar, value, <<>>)

\* the clean-up of an extracted value based on the field type
cleanValue(field, value) ==
    CASE field = "studentName" -> cleanStudentName(value)
      [] field = "dateIssued" -> cleanDateIssued(value)
      [] field = "marks" -> ReplaceAll(reNonMarkChar, value, <<>>)
      [] field \in {"studentRoll", "certificateNumber"} ->
            ReplaceAll(reNonRollChar, value, <<>>)
      [] OTHER -> value

\* the acceptance test with a trimmed length of 2 accepted as well
AcceptableFromTwo(line, match) ==
    /\ match.ok
    /\ Len(Group(line, match, 1)) > 0
    /\ Len(trim(Group(line, match, 1))) >= 2

\* match && match[1] && match[1].trim().length > 2
Acceptable(line, match) ==
    /\ match.ok
    /\ Len(Group(line, match, 1)) > 0
    /\ Len(trim(Group(line, match, 1))) > 2

RECURSIVE patternLoop(_, _, _)
\* the body of the pattern loop once the value is cleaned: a non-empty value
\* is stored and ends the loop
storeValue(field, line, i, value) ==
    IF Len(value) > 0 THEN value ELSE patternLoop(field, line, i + 1)

\* the body of the pattern loop for the match of the i-th pattern
tryMatch(field, line, i, match) ==
    IF Acceptable(line, match)
    THEN storeValue(field, line, i, cleanValue(field, trim(Group(line, match, 1))))
    ELSE patternLoop(field, line, i + 1)

\* the loop over fieldPatterns for one line, from the i-th pattern on: the
\* value stored, or <<>> when no pattern stores one
patternLoop(field, line, i) ==
    IF i > Len(patterns[field]) THEN <<>>
    ELSE tryMatch(field, line, i, Search(patterns[field][i], line))

RECURSIVE lineLoop(_, _, _)
\* the break out of the line loop once a line has stored a value
breakOrNextLine(field, lines, k, value) ==
    IF Len(value) > 0 THEN value ELSE lineLoop(field, lines, k + 1)

\* the loop over lines for one field, from the k-th line on
lineLoop(field, lines, k) ==
    IF k > Len(lines) THEN <<>>
    ELSE breakOrNextLine(field, lines, k, patternLoop(field, lines[k], 1))

\* extracted with the value stored under field, if one was stored
stored(extracted, field, value) ==
    IF Len(value) > 0 THEN Put(extracted, field, value) ELSE extracted

RECURSIVE fieldLoop(_, _, _)
\* the loop over Object.entries(patterns), from the i-th field on
fieldLoop(lines, i, extracted) ==
    IF i > Len(patternFields) THEN extracted
    ELSE fieldLoop(lines, i + 1,
                   stored(extracted, patternFields[i],
                          lineLoop(patternFields[i], lines, 1)))

\* the primary extraction loop
primaryLoop(lines) == fieldLoop(lines, 1, EmptyRecord)

\* extracted.studentRoll = rollMatch[1], if there is a match
assignRoll(cleanedText, extracted, rollMatch) ==
    IF rollMatch.ok
    THEN Put(extracted, "studentRoll", Group(cleanedText, rollMatch, 1))
    ELSE extracted

\* the generic roll fallback
rollFallback(cleanedText, extracted) ==
    IF ~Truthy(extracted, "studentRoll") /\ ~Truthy(extracted, "certificateNumber")
    THEN assignRoll(cleanedText, extracted, Search(reRollFallback, cleanedText))
    ELSE extracted

\* extracted.institutionName = instMatch[1].trim(), if there is a match
assignInstitution(cleanedText, extracted, instMatch) ==
    IF instMatch.ok
    THEN Put(extracted, "institutionName", trim(Group(cleanedText, instMatch, 1)))
    ELSE extracted

\* the generic institution fallback
institutionFallback(cleanedText, extracted) ==
    IF ~Truthy(extracted, "institutionName")
    THEN assignInstitution(cleanedText, extracted, Search(reInstFallback, cleanedText))
    ELSE extracted

formPatterns ==
    [studentRoll |-> formPatterns_studentRoll,
     studentName |-> formPatterns_studentName,
     institutionName |-> formPatterns_institutionName,
     dateIssued |-> formPatterns_dateIssued,
     certificateNumber |-> formPatterns_certificateNumber]

\* the order of Object.entries(formPatterns)
formFields ==
    <<"studentRoll", "studentName", "institutionName", "dateIssued",
      "certificateNumber">>

\* the guard of a form field: !extracted[field]
formFieldOpen(extracted, field) == ~Truthy(extracted, field)

\* the student name of a form field stored without the surname and length
\* guard
assignFormNameUnguarded(field, text, extracted, i, name) ==
    Put(extracted, field, name)

RECURSIVE formPatternLoop(_, _, _, _)
\* the student name of a form field, filtered: stored when it has a valid
\* surname and more than 5 characters
assignFormName(field, text, extracted, i, name) ==
    IF Search(reValidSurname, name).ok /\ Len(name) > 5
    THEN Put(extracted, field, name)
    ELSE formPatternLoop(field, text, extracted, i + 1)

\* the body of the form pattern loop for the match of the i-th pattern
tryFormMatch(field, text, extracted, i, match) ==
    IF Acceptable(text, match)
    THEN IF field = "studentName"
         THEN assignFormName(field, text, extracted, i,
                             filterInstitutionWords(trim(Group(text, match, 1))))
         ELSE Put(extracted, field, trim(Group(text, match, 1)))
    ELSE formPatternLoop(field, text, extracted, i + 1)

\* the loop over the form patterns of one field, from the i-th on
formPatternLoop(field, text, extracted, i) ==
    IF i > Len(formPatterns[field]) THEN extracted
    ELSE tryFormMatch(field, text, extracted, i,
                      Search(formPatterns[field][i], text))

RECURSIVE formFieldLoop(_, _, _)
formFieldLoop(text, extracted, i) ==
    IF i > Len(formFields) THEN extracted
    ELSE formFieldLoop(text,
             IF formFieldOpen(extracted, formFields[i])
             THEN formPatternLoop(formFields[i], text, extracted, 1)
             ELSE extracted,
             i + 1)

\* the form-field pass returning only the attributes it has patterns for
extractFromFormFieldsOnly(text, extracted) ==
    [f \in (DOMAIN formFieldLoop(text, extracted, 1)) \cap DOMAIN formPatterns |->
        formFieldLoop(text, extracted, 1)[f]]

extractFromFormFields(text, extracted) == formFieldLoop(text, extracted, 1)

\* the name of the receipt-name match, cleaned and stored
assignReceiptName(cleanedText, extracted, receiptNameMatch) ==
    IF receiptNameMatch.ok
    THEN Put(extracted, "studentName",
             filterInstitutionWords(
                 trim(ReplaceFirst(reReceiptParens,
                                   trim(Group(cleanedText, receiptNameMatch, 1)),
                                   <<>>))))
    ELSE extracted

\* the receipt-name fallback
receiptNameFallback(cleanedText, extracted) ==
    IF ~Truthy(extracted, "studentName")
    THEN assignReceiptName(cleanedText, extracted, Search(reReceiptName, cleanedText))
    ELSE extracted

\* the date of the receipt-date match, monthIndex the index of its month
assignReceiptMonth(cleanedText, extracted, receiptDateMatch, monthIndex) ==
    IF monthIndex # -1
    THEN Put(extracted, "dateIssued",
             formatDate(Group(cleanedText, receiptDateMatch, 1), monthIndex,
                        Group(cleanedText, receiptDateMatch, 2)))
    ELSE extracted

\* the date of the receipt-date match, converted and stored
assignReceiptDate(cleanedText, extracted, receiptDateMatch) ==
    IF receiptDateMatch.ok
    THEN assignReceiptMonth(cleanedText, extracted, receiptDateMatch,
             findMonth(toLowerCase(Matched(cleanedText, receiptDateMatch))))
    ELSE extracted

\* the receipt-date fallback without its guard on extracted.dateIssued
receiptDateFallbackUnguarded(cleanedText, extracted) ==
    assignReceiptDate(cleanedText, extracted, Search(reReceiptDate, cleanedText))

\* the receipt-date fallback
receiptDateFallback(cleanedText, extracted) ==
    IF ~Truthy(extracted, "dateIssued")
    THEN assignReceiptDate(cleanedText, extracted, Search(reReceiptDate, cleanedText))
    ELSE extracted

\* parseCertificateText from the cleaned text on
parseCleanedText(cleanedText) ==
    receiptDateFallback(cleanedText,
        receiptNameFallback(cleanedText,
            extractFromFormFields(cleanedText,
                institutionFallback(cleanedText,
                    rollFallback(cleanedText,
                        primaryLoop(splitLines(cleanedText)))))))

\* the whole of parseCertificateText as a function of its argument
parseCertificateText(text) == parseCleanedText(cleanText(text))

\* ------------------------------------------------------------------------
\* extractText
\* ------------------------------------------------------------------------
\* validTypes of isValidFileType
validTypes ==
    <<<<"i","m","a","g","e","/","j","p","e","g">>,
      <<"i","m","a","g","e","/","j","p","g">>,
      <<"i","m","a","g","e","/","p","n","g">>,
      <<"i","m","a","g","e","/","g","i","f">>,
      <<"i","m","a","g","e","/","b","m","p">>,
      <<"i","m","a","g","e","/","w","e","b","p">>,
      <<"i","m","a","g","e","/","t","i","f","f">>>>

\* a type check that accepts every media type with a subtype
isValidFileTypeAnySubtype(file) == includes(toLowerCase(file.type), <<"/">>)

isValidFileType(file) ==
    \E i \in DOMAIN validTypes : validTypes[i] = toLowerCase(file.type)

UnsupportedFileType == "Unsupported file type. Please use image files (JPG, PNG, etc.)"

FailedToReadFile == "Failed to read file"

\* an error raised by the OCR engine
RecognizeError == "recognize failed"

ExtractionFailure ==
    "Failed to extract text from document. Please ensure the file is a valid image."

\* Math.round of a non-negative number given in tenths
MathRound(tenths) == (tenths + 5) \div 10

\* ------------------------------------------------------------------------
\* validateExtractedData and formatExtractedData
\* ------------------------------------------------------------------------
StudentNameNotFound == "Student name not found"

RollOrCertificateNotFound == "Roll number or certificate number not found"

InstitutionNameNotFound == "Institution name not found"

\* errors.push(message) when the requirement is unmet
push(errors, unmet, message) == IF unmet THEN Append(errors, message) ELSE errors

\* the errors pushed when either of studentRoll and certificateNumber is
\* missing
validationErrorsEitherMissing(data) ==
    push(push(push(<<>>,
                   ~Truthy(data, "studentName"), StudentNameNotFound),
              ~Truthy(data, "studentRoll") \/ ~Truthy(data, "certificateNumber"),
              RollOrCertificateNotFound),
         ~Truthy(data, "institutionName"), InstitutionNameNotFound)

\* the errors of validateExtractedData, pushed in this order
validationErrors(data) ==
    push(push(push(<<>>,
                   ~Truthy(data, "studentName"), StudentNameNotFound),
              ~Truthy(data, "studentRoll") /\ ~Truthy(data, "certificateNumber"),
              RollOrCertificateNotFound),
         ~Truthy(data, "institutionName"), InstitutionNameNotFound)

validateExtractedData(data) ==
    [isValid |-> Len(validationErrors(data)) = 0, errors |-> validationErrors(data)]

\* the fields of formatExtractedData: the attributes and their labels
displayFields ==
    <<[field |-> "studentName", label |-> <<"S","t","u","d","e","n","t"," ","N","a","m","e">>],
      [field |-> "studentRoll", label |-> <<"R","o","l","l"," ","N","u","m","b","e","r">>],
      [field |-> "certificateNumber", label |-> <<"C","e","r","t","i","f","i","c","a","t","e"," ","N","u","m","b","e","r">>],
      [field |-> "institutionName", label |-> <<"I","n","s","t","i","t","u","t","i","o","n">>],
      [field |-> "courseName", label |-> <<"C","o","u","r","s","e">>],
      [field |-> "marks", label |-> <<"M","a","r","k","s">>],
      [field |-> "dateIssued", label |-> <<"D","a","t","e"," ","I","s","s","u","e","d">>],
      [field |-> "uin", label |-> <<"U","I","N">>]>>

\* the lines of every attribute of the record, the empty ones included
displayLinesKeepEmpty(data) ==
    LET Kept(entry) == entry.field \in DOMAIN data
        kept == SelectSeq(displayFields, Kept)
    IN [i \in DOMAIN kept |-> kept[i].label \o <<":", " ">> \o data[kept[i].field]]

\* fields.filter(field => field.value).map(field => `${field.label}: ${field.value}`)
displayLines(data) ==
    LET Kept(entry) == Truthy(data, entry.field)
        kept == SelectSeq(displayFields, Kept)
    IN [i \in DOMAIN kept |-> kept[i].label \o <<":", " ">> \o data[kept[i].field]]

formatExtractedData(data) == join(displayLines(data), <<"\n">>)

\* ------------------------------------------------------------------------
\* LegacyDocumentManagement: handleOCRVerification
\* ------------------------------------------------------------------------
\* data[field] === value, data[field] undefined when absent
StrictEquals(data, field, value) == field \in DOMAIN data /\ data[field] = value

\* data.marks === document.marks?.toString(): both undefined, or equal strings
marksEqual(data, document) ==
    IF "marks" \in DOMAIN document
    THEN StrictEquals(data, "marks", String(document.marks))
    ELSE "marks" \notin DOMAIN data

\* the keys of comparison, in the order of the object literal
comparisonKeys ==
    <<"studentName", "studentRoll", "docType", "uin", "marks", "dateIssued">>

comparison(data, document) ==
    [studentName |-> StrictEquals(data, "studentName", document.student_name),
     studentRoll |-> StrictEquals(data, "studentRoll", document.student_roll),
     docType |-> StrictEquals(data, "courseName", document.doc_type),
     uin |-> \/ StrictEquals(data, "certificateNumber", document.uin)
             \/ StrictEquals(data, "uin", document.uin),
     marks |-> marksEqual(data, document),
     dateIssued |-> StrictEquals(data, "dateIssued", document.date_issued)]

\* Object.values(comparison).filter(Boolean).length
matches(data, document) ==
    Len(SelectSeq(comparisonKeys, LAMBDA k : comparison(data, document)[k]))

\* Object.keys(comparison).length
total == Len(comparisonKeys)

\* Math.round((matches / total) * 100)
matchPercentage(data, document) ==
    MathRound((matches(data, document) * 1000) \div total)

\* approval from 60 percent on
autoApproveFromSixty(percentage) == percentage >= 60

\* the condition of the automatic approval
autoApprove(percentage) == percentage >= 80

\* the toast of handleOCRVerification
VerificationComplete(percentage) ==
    [title |-> "OCR Verification Complete", matchPercentage |-> percentage]

\* the request updateStatus sends
StatusRequest(docId, newStatus) == [docId |-> docId, status |-> newStatus]

\* ------------------------------------------------------------------------
\* Inputs
\* ------------------------------------------------------------------------
\* the largest number of lines of an input document
MaxLines == 3

\* institution headings a document may start with
HeaderLines ==
    <<<<"X","Y","Z"," ","I","n","s","t","i","t","u","t","e"," ","o","f"," ","T","e","c","h","n","o","l","o","g","y">>,
      <<"S","t","."," ","M","a","r","y","'","s"," ","C","o","l","l","e","g","e",","," ","P","u","n","e"," ","&"," ","G","o","a">>>>

\* lines naming the student
NameLines ==
    <<<<"M","r","."," ","N","I","K","H","I","L"," ","S","U","R","E","D","R","A"," ","P","A","T","I","L"," ","(","O","P","E","N",")">>,
      <<"M","r","."," ","R","A","J","E","S","H"," ","K","U","M","A","R">>,
      <<"M","r","."," ","C","O","L","L","E","G","E","J","O","S","H","I">>,
      <<"S","t","u","d","e","n","t"," ","N","a","m","e",":"," ","A","m","i","t"," ","K","u","m","a","r">>,
      <<"N","a","m","e",":"," ","C","o","l","l","e","g","e",","," ","M","r","."," ","S","I","T","A","R","A","M","C","O","L","L","E","G","E">>>>

\* lines carrying an identifying number
NumberLines ==
    <<<<"R","e","c","e","i","p","t"," ","N","o",":"," ","1","2","3","4","5","6">>,
      <<"R","o","l","l"," ","N","o",":"," ","a","b","-","1","2","3","x">>,
      <<"R","o","l","l"," ","N","o",":"," ","a","b","c","d","e","f">>>>

\* lines carrying a date
DateLines ==
    <<<<"J","u","n","e"," ","2","7",","," ","2","0","2","5">>,
      <<"J","u","n","e"," ","7",","," ","2","0","2","5">>,
      <<"1","5"," ","A","u","g","u","s","t"," ","2","0","2","4">>,
      <<"1","5","/","0","8","/","2","0","2","4">>,
      <<"A","w","a","r","d","e","d"," ","o","n"," ","1","2",".","2","0","2","0">>>>

\* closing lines of a printed form
FooterLines ==
    <<<<"F","o","r","m","_","7"," ","p","r","i","n","t","e","d"," ","1","5","/","0","8","/","2","0","2","4">>>>

\* a document takes at most one line of each kind, in this order
Slots == <<HeaderLines, NameLines, NumberLines, DateLines, FooterLines>>

\* which line of each kind a document takes (0: none)
Choices ==
    {c \in [DOMAIN Slots -> 0..5] :
        /\ \A k \in DOMAIN Slots : c[k] <= Len(Slots[k])
        /\ Cardinality({k \in DOMAIN Slots : c[k] > 0}) <= MaxLines}

RECURSIVE Document(_, _)
\* the raw text of the document of choice c, from slot k on: its lines
\* separated by line breaks
Document(c, k) ==
    IF k > Len(Slots) THEN <<>>
    ELSE IF c[k] = 0 THEN Document(c, k + 1)
    ELSE LET rest == Document(c, k + 1) IN
         IF Len(rest) = 0 THEN Slots[k][c[k]]
         ELSE Slots[k][c[k]] \o <<"\n">> \o rest

\* the raw texts parseCertificateText is called with
Inputs == {Document(c, 1) : c \in Choices}

\* the largest number of calls of parseCertificateText in one session
MaxCalls == 2

\* the texts of the sessions that call parseCertificateText more than once
RepeatTexts ==
    {Document(<<0, 1, 1, 1, 0>>, 1), Document(<<0, 0, 3, 0, 0>>, 1),
     Document(<<1, 2, 0, 0, 0>>, 1)}

\* the stored documents handleOCRVerification is called with: one with marks,
\* one without
Documents ==
    {[id |-> 7, student_name |-> <<"A">>, student_roll |-> <<"B">>,
      doc_type |-> <<"E">>, marks |-> 9, uin |-> <<"U">>,
      date_issued |-> <<"1","/","2","/","3">>],
     [id |-> 8, student_name |-> <<"A">>, student_roll |-> <<"B">>,
      doc_type |-> <<"E">>, uin |-> <<"U">>,
      date_issued |-> <<"1","/","2","/","3">>]}

\* the values the OCR data may hold per attribute, besides being absent: the
\* stored value and, for the name, another one
VerifyValues ==
    [studentName |-> <<<<"A">>, <<"Z">>>>, studentRoll |-> <<<<"B">>>>,
     courseName |-> <<<<"E">>>>, certificateNumber |-> <<<<"U">>>>,
     uin |-> <<<<"U">>>>, marks |-> <<<<"9">>>>,
     dateIssued |-> <<<<"1","/","2","/","3">>>>]

\* per attribute: 0 absent, k its k-th value
VerifyChoices ==
    {c \in [DOMAIN VerifyValues -> 0..2] :
        \A f \in DOMAIN VerifyValues : c[f] <= Len(VerifyValues[f])}

\* the OCR data handleOCRVerification is called with
VerifyData ==
    {[f \in {g \in DOMAIN VerifyValues : c[g] # 0} |-> VerifyValues[f][c[f]]] :
        c \in VerifyChoices}

\* the largest number of runs of processDocument on one mounted OCRProcessor
MaxRuns == 2

\* the amounts Math.random() * 10 adds to the progress, rounded
ProgressSteps == {3, 9}

\* the largest number of edits of the UIN field of one mounted form
MaxEdits == 3

\* what the user may type into the UIN field
UinInputs == {<<>>, <<" ">>, <<"U","1">>, <<"U","2">>}

\* the UINs the server has a document for
ExistingUins == {<<"U","1">>}

\* the media types of the files extractText is called with
FileTypes ==
    <<<<"i","m","a","g","e","/","p","n","g">>,
      <<"I","M","A","G","E","/","J","P","E","G">>,
      <<"a","p","p","l","i","c","a","t","i","o","n","/","p","d","f">>,
      <<"t","e","x","t","/","p","l","a","i","n">>>>

Files == {[type |-> FileTypes[i], readable |-> r] : i \in DOMAIN FileTypes, r \in BOOLEAN}

\* what the OCR engine may answer (the confidence in tenths), or its failure
OcrResults ==
    {[ok |-> TRUE, text |-> Document(<<0, 1, 1, 1, 0>>, 1), confidence |-> 874],
     [ok |-> TRUE, text |-> Document(<<1, 2, 0, 0, 0>>, 1), confidence |-> 875],
     [ok |-> TRUE, text |-> <<>>, confidence |-> 0],
     [ok |-> FALSE]}

\* a value of each attribute of a record given to validateExtractedData or
\* formatExtractedData
SampleValues ==
    [studentName |-> <<"A">>, studentRoll |-> <<"B">>, institutionName |-> <<"C">>,
     certificateNumber |-> <<"D">>, courseName |-> <<"E">>, marks |-> <<"9">>,
     dateIssued |-> <<"1","/","2","/","3">>, uin |-> <<"U">>]

\* the attributes that may also hold the empty string
MayBeEmpty == {"studentName", "studentRoll", "certificateNumber", "institutionName"}

\* per attribute: 0 absent, 1 the empty string, 2 its sample value
RecordChoices ==
    {c \in [Fields -> 0..2] : \A f \in Fields : c[f] = 1 => f \in MayBeEmpty}

\* the records validateExtractedData and formatExtractedData are called with
Records ==
    {[f \in {g \in Fields : c[g] # 0} |->
         IF c[f] = 1 THEN <<>> ELSE SampleValues[f]] : c \in RecordChoices}

\* ------------------------------------------------------------------------
\* State
\* ------------------------------------------------------------------------
VARIABLES
    entry,         \* the method the caller called
    file,          \* the argument of extractText
    pc,            \* where the call stands
    calls,         \* the operations extractText has started, in order
    text,          \* the argument of parseCertificateText
    confidence,    \* the confidence the OCR engine reported, in tenths
    cleanedText,
    lines,
    extracted,
    afterPrimary,  \* extracted as the primary loop left it
    caught,        \* the message of the error the catch block received
    outcome,       \* what the caller gets: a value or an error
    data,          \* the argument of validateExtractedData / formatExtractedData
    passes,        \* the passes parseCertificateText has run, in order
    history,       \* the calls of parseCertificateText that have returned
    document,      \* the stored document given to handleOCRVerification
    management,    \* the state of the LegacyDocumentManagement page
    processor,     \* the state of the OCRProcessor component
    request        \* the state of the LegacyDocumentRequest component

\* the state of the components outside the OCR service
uiVars == <<document, management, processor, request>>

vars ==
    <<entry, file, pc, calls, text, confidence, cleanedText, lines, extracted,
      afterPrimary, caught, outcome, data, passes, history, uiVars>>

None == "none"

NoFile == [type |-> <<>>, readable |-> FALSE]

Pending == [kind |-> "pending"]

\* no stored document
NoDocument == [id |-> 0]

\* the LegacyDocumentManagement page as mounted: no OCR dialog, no selection
ManagementClosed ==
    [showOCR |-> FALSE, selectedDocument |-> NoDocument, toasts |-> <<>>,
     statusRequests |-> <<>>]

\* the OCRProcessor component as mounted, with no interval scheduled
ProcessorMounted ==
    [isProcessing |-> FALSE, progress |-> 0, intervals |-> {}, runs |-> 0,
     finished |-> {}]

\* no debounce timer is pending
NoTimer == [pending |-> FALSE]

\* the debounce timer of the check of the UIN is pending
Timer(uin) == [pending |-> TRUE, uin |-> uin]

\* the LegacyDocumentRequest component as mounted
RequestMounted ==
    [uin |-> <<>>,
     uinValidation |-> [isValid |-> TRUE, message |-> <<>>, isChecking |-> FALSE],
     timer |-> NoTimer, inFlight |-> {}, checks |-> 0, edits |-> 0,
     checkedUin |-> <<>>]

Init ==
    /\ \/ /\ entry = "parseCertificateText"
          /\ file = NoFile
          /\ text \in Inputs
          /\ data = EmptyRecord
          /\ pc = "normalize"
          /\ document = NoDocument
          /\ management = ManagementClosed
       \/ /\ entry = "extractText"
          /\ file \in Files
          /\ text = <<>>
          /\ data = EmptyRecord
          /\ pc = "extractText"
          /\ document = NoDocument
          /\ management = ManagementClosed
       \/ /\ entry \in {"validateExtractedData", "formatExtractedData"}
          /\ file = NoFile
          /\ text = <<>>
          /\ data \in Records
          /\ pc = entry
          /\ document = NoDocument
          /\ management = ManagementClosed
       \/ /\ entry = "handleOCRVerification"
          /\ file = NoFile
          /\ text = <<>>
          /\ data \in VerifyData
          /\ pc = entry
          /\ document \in Documents
          /\ management = [ManagementClosed EXCEPT !.showOCR = TRUE,
                                                   !.selectedDocument = document]
       \/ /\ entry = "processDocument"
          /\ file \in {NoFile, [type |-> FileTypes[1], readable |-> TRUE]}
          /\ text = <<>>
          /\ data = EmptyRecord
          /\ pc = entry
          /\ document = NoDocument
          /\ management = ManagementClosed
       \/ /\ entry = "LegacyDocumentRequest"
          /\ file = NoFile
          /\ text = <<>>
          /\ data = EmptyRecord
          /\ pc = "mounted"
          /\ document = NoDocument
          /\ management = ManagementClosed
    /\ passes = <<>>
    /\ calls = <<>>
    /\ confidence = 0
    /\ cleanedText = <<>>
    /\ lines = <<>>
    /\ extracted = EmptyRecord
    /\ afterPrimary = EmptyRecord
    /\ caught = None
    /\ outcome = Pending
    /\ history = <<>>
    /\ processor = ProcessorMounted
    /\ request = RequestMounted

\* the catch block of extractText: the error is logged and a new one thrown
Catch(message) ==
    /\ caught' = message
    /\ outcome' = [kind |-> "error", message |-> ExtractionFailure]
    /\ pc' = "failed"

\* extractText up to its first await
ValidateFileType ==
    /\ pc = "extractText"
    /\ IF ~isValidFileType(file)
       THEN /\ Catch(UnsupportedFileType)
            /\ calls' = calls \o <<"isValidFileType">>
       ELSE /\ calls' = calls \o <<"isValidFileType", "fileToDataURL">>
            /\ pc' = "reading"
            /\ UNCHANGED <<caught, outcome>>
    /\ UNCHANGED <<entry, file, text, confidence, cleanedText, lines, extracted,
                   afterPrimary, data, passes>>
    /\ UNCHANGED <<history, uiVars>>

\* fileToDataURL settles; on success Tesseract.recognize is called
FileRead ==
    /\ pc = "reading"
    /\ IF file.readable
       THEN /\ calls' = calls \o <<"recognize">>
            /\ pc' = "recognizing"
            /\ UNCHANGED <<caught, outcome>>
       ELSE /\ Catch(FailedToReadFile)
            /\ UNCHANGED calls
    /\ UNCHANGED <<entry, file, text, confidence, cleanedText, lines, extracted,
                   afterPrimary, data, passes>>
    /\ UNCHANGED <<history, uiVars>>

\* Tesseract.recognize settles; after a first failure the engine is called
\* once more
RecognizedWithRetry ==
    /\ pc = "recognizing"
    /\ \E r \in OcrResults :
          IF r.ok
          THEN /\ text' = r.text
               /\ confidence' = r.confidence
               /\ calls' = calls \o <<"parseCertificateText">>
               /\ pc' = "normalize"
               /\ UNCHANGED <<caught, outcome>>
          ELSE IF Len(SelectSeq(calls, LAMBDA c : c = "recognize")) < 2
          THEN /\ calls' = calls \o <<"recognize">>
               /\ UNCHANGED <<text, confidence, pc, caught, outcome>>
          ELSE /\ Catch(RecognizeError)
               /\ UNCHANGED <<text, confidence, calls>>
    /\ UNCHANGED <<entry, file, cleanedText, lines, extracted, afterPrimary, data, passes>>
    /\ UNCHANGED <<history, uiVars>>

\* Tesseract.recognize settles; on success parseCertificateText is called
Recognized ==
    /\ pc = "recognizing"
    /\ \E r \in OcrResults :
          IF r.ok
          THEN /\ text' = r.text
               /\ confidence' = r.confidence
               /\ calls' = calls \o <<"parseCertificateText">>
               /\ pc' = "normalize"
               /\ UNCHANGED <<caught, outcome>>
          ELSE /\ Catch(RecognizeError)
               /\ UNCHANGED <<text, confidence, calls>>
    /\ UNCHANGED <<entry, file, cleanedText, lines, extracted, afterPrimary, data, passes>>
    /\ UNCHANGED <<history, uiVars>>

\* parseCertificateText: cleaning and splitting into lines
Normalize ==
    /\ pc = "normalize"
    /\ cleanedText' = cleanText(text)
    /\ lines' = splitLines(cleanedText')
    /\ pc' = "primary"
    /\ UNCHANGED <<entry, file, calls, text, confidence, extracted, afterPrimary,
                   caught, outcome, data, passes>>
    /\ UNCHANGED <<history, uiVars>>

\* the record of the call before this one, empty for a first call
previousRecord ==
    IF Len(history) = 0 THEN EmptyRecord ELSE history[Len(history)].record

\* the primary loop filling the record of the previous call instead of a
\* fresh one
PrimaryLoopOnPreviousRecord ==
    /\ pc = "primary"
    /\ extracted' = fieldLoop(lines, 1, previousRecord)
    /\ afterPrimary' = extracted'
    /\ pc' = "rollFallback"
    /\ UNCHANGED <<entry, file, calls, text, confidence, cleanedText, lines,
                   caught, outcome, data>>
    /\ passes' = Append(passes, "primaryLoop")
    /\ UNCHANGED <<history, uiVars>>

\* const extracted = {} and the primary loop
PrimaryLoop ==
    /\ pc = "primary"
    /\ extracted' = primaryLoop(lines)
    /\ afterPrimary' = extracted'
    /\ pc' = "rollFallback"
    /\ UNCHANGED <<entry, file, calls, text, confidence, cleanedText, lines,
                   caught, outcome, data>>
    /\ passes' = Append(passes, "primaryLoop")
    /\ UNCHANGED <<history, uiVars>>

RollFallback ==
    /\ pc = "rollFallback"
    /\ extracted' = rollFallback(cleanedText, extracted)
    /\ pc' = "institutionFallback"
    /\ UNCHANGED <<entry, file, calls, text, confidence, cleanedText, lines,
                   afterPrimary, caught, outcome, data>>
    /\ passes' = Append(passes, "rollFallback")
    /\ UNCHANGED <<history, uiVars>>

\* the institution fallback followed at once by the receipt-name fallback,
\* the form-field pass left out
InstitutionFallbackThenReceipt ==
    /\ pc = "institutionFallback"
    /\ extracted' = institutionFallback(cleanedText, extracted)
    /\ pc' = "receiptName"
    /\ UNCHANGED <<entry, file, calls, text, confidence, cleanedText, lines,
                   afterPrimary, caught, outcome, data>>
    /\ passes' = Append(passes, "institutionFallback")
    /\ UNCHANGED <<history, uiVars>>

InstitutionFallback ==
    /\ pc = "institutionFallback"
    /\ extracted' = institutionFallback(cleanedText, extracted)
    /\ pc' = "formFields"
    /\ UNCHANGED <<entry, file, calls, text, confidence, cleanedText, lines,
                   afterPrimary, caught, outcome, data>>
    /\ passes' = Append(passes, "institutionFallback")
    /\ UNCHANGED <<history, uiVars>>

FormFields ==
    /\ pc = "formFields"
    /\ extracted' = extractFromFormFields(cleanedText, extracted)
    /\ pc' = "receiptName"
    /\ UNCHANGED <<entry, file, calls, text, confidence, cleanedText, lines,
                   afterPrimary, caught, outcome, data>>
    /\ passes' = Append(passes, "extractFromFormFields")
    /\ UNCHANGED <<history, uiVars>>

ReceiptName ==
    /\ pc = "receiptName"
    /\ extracted' = receiptNameFallback(cleanedText, extracted)
    /\ pc' = "receiptDate"
    /\ UNCHANGED <<entry, file, calls, text, confidence, cleanedText, lines,
                   afterPrimary, caught, outcome, data>>
    /\ passes' = Append(passes, "receiptNameFallback")
    /\ UNCHANGED <<history, uiVars>>

ReceiptDate ==
    /\ pc = "receiptDate"
    /\ extracted' = receiptDateFallback(cleanedText, extracted)
    /\ pc' = "return"
    /\ UNCHANGED <<entry, file, calls, text, confidence, cleanedText, lines,
                   afterPrimary, caught, outcome, data>>
    /\ passes' = Append(passes, "receiptDateFallback")
    /\ UNCHANGED <<history, uiVars>>

\* parseCertificateText returns extracted; extractText wraps it
Return ==
    /\ pc = "return"
    /\ outcome' =
          IF entry = "extractText"
          THEN [kind |-> "ExtractedData", rawText |-> text,
                confidence |-> MathRound(confidence), parsedData |-> extracted]
          ELSE [kind |-> "ParsedData", parsedData |-> extracted]
    /\ pc' = "returned"
    /\ UNCHANGED <<entry, file, calls, text, confidence, cleanedText, lines,
                   extracted, afterPrimary, caught, data, passes>>
    /\ history' = Append(history, [text |-> text, record |-> extracted])
    /\ UNCHANGED uiVars

\* the caller calls parseCertificateText once more, with another text or the
\* same one
CallAgain ==
    /\ entry = "parseCertificateText"
    /\ pc = "returned"
    /\ Len(history) < MaxCalls
    /\ text \in RepeatTexts
    /\ text' \in RepeatTexts
    /\ pc' = "normalize"
    /\ outcome' = Pending
    /\ passes' = <<>>
    /\ cleanedText' = <<>>
    /\ lines' = <<>>
    /\ extracted' = EmptyRecord
    /\ afterPrimary' = EmptyRecord
    /\ UNCHANGED <<entry, file, calls, confidence, caught, data, history, uiVars>>

\* a call of validateExtractedData
Validate ==
    /\ pc = "validateExtractedData"
    /\ outcome' = [kind |-> "Validation", result |-> validateExtractedData(data)]
    /\ pc' = "validated"
    /\ UNCHANGED <<entry, file, calls, text, confidence, cleanedText, lines,
                   extracted, afterPrimary, caught, data, passes>>
    /\ UNCHANGED <<history, uiVars>>

\* a call of formatExtractedData
Format ==
    /\ pc = "formatExtractedData"
    /\ outcome' = [kind |-> "Formatted", result |-> formatExtractedData(data)]
    /\ pc' = "formatted"
    /\ UNCHANGED <<entry, file, calls, text, confidence, cleanedText, lines,
                   extracted, afterPrimary, caught, data, passes>>
    /\ UNCHANGED <<history, uiVars>>

\* handleOCRVerification(data, document), called by the OCR dialog of the
\* selected document
HandleOCRVerification ==
    /\ pc = "handleOCRVerification"
    /\ management' =
          [showOCR |-> FALSE,
           selectedDocument |-> NoDocument,
           toasts |-> Append(management.toasts,
                             VerificationComplete(matchPercentage(data, document))),
           statusRequests |->
               IF autoApprove(matchPercentage(data, document))
               THEN Append(management.statusRequests,
                           StatusRequest(document.id, "verified"))
               ELSE management.statusRequests]
    /\ pc' = "handled"
    /\ UNCHANGED <<entry, file, calls, text, confidence, cleanedText, lines,
                   extracted, afterPrimary, caught, outcome, data, passes,
                   history, document, processor, request>>

\* the toasts of processDocument
ExtractionComplete == [kind |-> "toast", title |-> "Text Extraction Complete"]

ExtractionFailed == [kind |-> "toast", title |-> "Extraction Failed"]

\* processDocument up to its await: the run takes the next number, and its
\* progress interval is known by that number
ProcessDocument ==
    /\ entry = "processDocument"
    /\ pc = "processDocument"
    /\ file # NoFile
    /\ processor.runs < MaxRuns
    /\ processor' = [processor EXCEPT !.isProcessing = TRUE,
                                      !.progress = 0,
                                      !.runs = @ + 1,
                                      !.intervals = @ \cup {processor.runs + 1}]
    /\ pc' = "awaitExtractText"
    /\ UNCHANGED <<entry, file, calls, text, confidence, cleanedText, lines,
                   extracted, afterPrimary, caught, outcome, data, passes,
                   history, document, management, request>>

\* the callback of a scheduled progress interval
ProgressTick ==
    /\ entry = "processDocument"
    /\ processor.intervals # {}
    /\ \E step \in ProgressSteps :
          processor' = [processor EXCEPT !.progress =
                           IF @ >= 90 THEN @ ELSE @ + step]
    /\ UNCHANGED <<entry, file, pc, calls, text, confidence, cleanedText, lines,
                   extracted, afterPrimary, caught, outcome, data, passes,
                   history, document, management, request>>

\* extractText resolves: the rest of the try block, then the finally block
ExtractTextResolved ==
    /\ pc = "awaitExtractText"
    /\ processor' = [processor EXCEPT !.intervals = @ \ {processor.runs},
                                      !.progress = 100,
                                      !.isProcessing = FALSE,
                                      !.finished = @ \cup {processor.runs}]
    /\ outcome' = ExtractionComplete
    /\ pc' = "processDocument"
    /\ UNCHANGED <<entry, file, calls, text, confidence, cleanedText, lines,
                   extracted, afterPrimary, caught, data, passes,
                   history, document, management, request>>

\* extractText rejects: the catch block, then the finally block
ExtractTextRejected ==
    /\ pc = "awaitExtractText"
    /\ processor' = [processor EXCEPT !.isProcessing = FALSE,
                                      !.finished = @ \cup {processor.runs}]
    /\ outcome' = ExtractionFailed
    /\ pc' = "processDocument"
    /\ UNCHANGED <<entry, file, calls, text, confidence, cleanedText, lines,
                   extracted, afterPrimary, caught, data, passes,
                   history, document, management, request>>

\* the state of a validation that found nothing wrong
UinValid == [isValid |-> TRUE, message |-> <<>>, isChecking |-> FALSE]

\* the state of a validation that found a document with the UIN
UinExists(uin) ==
    [isValid |-> FALSE,
     message |-> <<"A document with UIN ", uin,
                   " already exists. Each UIN can only have one document.">>,
     isChecking |-> FALSE]

\* what checkUINExists may return for the UIN: the answer of the server, or
\* false when the request fails
checkUINExists(uin) == IF uin \in ExistingUins THEN {TRUE, FALSE} ELSE {FALSE}

\* handleInputChange('uin', value) with a new value, and the effect on
\* formData.uin it triggers: the cleanup of the previous effect clears its
\* timer, then the effect validates at once or starts the debounce timer
EditUin ==
    /\ entry = "LegacyDocumentRequest"
    /\ request.edits < MaxEdits
    /\ \E value \in UinInputs \ {request.uin} :
          request' =
              IF Len(trim(value)) = 0
              THEN [request EXCEPT !.uin = value,
                                   !.edits = @ + 1,
                                   !.timer = NoTimer,
                                   !.uinValidation = UinValid,
                                   !.checkedUin = <<>>]
              ELSE [request EXCEPT !.uin = value,
                                   !.edits = @ + 1,
                                   !.timer = Timer(trim(value)),
                                   !.uinValidation.isChecking = TRUE]
    /\ UNCHANGED <<entry, file, pc, calls, text, confidence, cleanedText, lines,
                   extracted, afterPrimary, caught, outcome, data, passes,
                   history, document, management, processor>>

\* the debounce timer fires: the callback calls checkUINExists(uin) and waits
TimerFires ==
    /\ entry = "LegacyDocumentRequest"
    /\ request.timer.pending
    /\ request' = [request EXCEPT
                      !.timer = NoTimer,
                      !.checks = @ + 1,
                      !.inFlight = @ \cup {[id |-> request.checks + 1,
                                            uin |-> request.timer.uin]}]
    /\ UNCHANGED <<entry, file, pc, calls, text, confidence, cleanedText, lines,
                   extracted, afterPrimary, caught, outcome, data, passes,
                   history, document, management, processor>>

\* checkUINExists settles and the rest of the timer callback runs
CheckSettles ==
    /\ entry = "LegacyDocumentRequest"
    /\ \E check \in request.inFlight : \E exists \in checkUINExists(check.uin) :
          request' = [request EXCEPT
                         !.inFlight = @ \ {check},
                         !.uinValidation =
                             IF exists THEN UinExists(check.uin) ELSE UinValid,
                         !.checkedUin = check.uin]
    /\ UNCHANGED <<entry, file, pc, calls, text, confidence, cleanedText, lines,
                   extracted, afterPrimary, caught, outcome, data, passes,
                   history, document, management, processor>>

Next ==
    \/ ValidateFileType
    \/ FileRead
    \/ Recognized
    \/ Normalize
    \/ PrimaryLoop
    \/ RollFallback
    \/ InstitutionFallback
    \/ FormFields
    \/ ReceiptName
    \/ ReceiptDate
    \/ Return
    \/ CallAgain
    \/ Validate
    \/ Format
    \/ HandleOCRVerification
    \/ ProcessDocument
    \/ ProgressTick
    \/ ExtractTextResolved
    \/ ExtractTextRejected
    \/ EditUin
    \/ TimerFires
    \/ CheckSettles

Spec == Init /\ [][Next]_vars
\* ------------------------------------------------------------------------
\* Properties
\* ------------------------------------------------------------------------
\* the record parseCertificateText has returned
Returned == pc = "returned" /\ outcome.kind \in {"ParsedData", "ExtractedData"}

\* extracted[field] is present and equals value
Has(field, value) == field \in DOMAIN extracted /\ extracted[field] = value

\* C1: once the primary extraction loop has set an attribute, no later pass
\* changes it: at every point after the primary loop, and in the returned
\* record, every attribute the primary loop stored still holds the value the
\* primary loop stored.
C1_FallbacksKeepPrimaryValues ==
    /\ \A f \in DOMAIN afterPrimary :
          f \in DOMAIN extracted /\ extracted[f] = afterPrimary[f]
    /\ Returned =>
          \A f \in DOMAIN afterPrimary :
              /\ f \in DOMAIN outcome.parsedData
              /\ outcome.parsedData[f] = afterPrimary[f]

\* a record is returned in which the primary loop has stored dateIssued and
\* the text holds a date the receipt-date fallback's pattern matches
C1_Witness ==
    /\ Returned
    /\ "dateIssued" \in DOMAIN afterPrimary
    /\ Search(reReceiptDate, cleanedText).ok
    /\ outcome.parsedData["dateIssued"] = afterPrimary["dateIssued"]

\* C2: every attribute of the returned record is absent or a non-empty
\* string.
C2_NoEmptyAttribute ==
    Returned => \A f \in DOMAIN outcome.parsedData : Len(outcome.parsedData[f]) > 0

\* the three-line receipt
ReceiptText == Document(<<0, 1, 1, 1, 0>>, 1)

\* C3: for the receipt 'Mr. NIKHIL SUREDRA PATIL (OPEN)', 'Receipt No:
\* 123456', 'June 27, 2025' the returned studentName contains 'NIKHIL SUREDRA
\* PATIL' with no parenthetical and no honorific, certificateNumber is
\* '123456' and dateIssued is '27/06/2025'.
C3_ReceiptExample ==
    (entry = "parseCertificateText" /\ text = ReceiptText /\ Returned) =>
        /\ "studentName" \in DOMAIN extracted
        /\ includes(extracted["studentName"], <<"N","I","K","H","I","L"," ","S","U","R","E","D","R","A"," ","P","A","T","I","L">>)
        /\ ~includes(extracted["studentName"], <<"(">>)
        /\ ~includes(toLowerCase(extracted["studentName"]), <<"m","r",".">>)
        /\ Has("certificateNumber", <<"1","2","3","4","5","6">>)
        /\ Has("dateIssued", <<"2","7","/","0","6","/","2","0","2","5">>)

\* C4: for the input text 'June 27, 2025' the returned dateIssued is
\* '27/06/2025'.
C4_MonthDayYear ==
    (entry = "parseCertificateText" /\ text = DateLines[1] /\ Returned) =>
        Has("dateIssued", <<"2","7","/","0","6","/","2","0","2","5">>)

\* the text holds a date written 'Month D, YYYY'
HasMonthDayYearDate == \E i \in {1, 2} : includes(text, DateLines[i])

\* s is two digits, a slash, two digits, a slash and four digits
IsDDMMYYYY(s) ==
    /\ Len(s) = 10
    /\ \A i \in {1, 2, 4, 5, 7, 8, 9, 10} : s[i] \in Digit
    /\ s[3] = "/" /\ s[6] = "/"

\* C5: whenever dateIssued is derived from a textual 'Month D, YYYY' date,
\* the returned value has the form DD/MM/YYYY, day and month zero-padded to
\* two digits; a day 7 in June 2025 gives '07/06/2025'.
C5_ZeroPaddedDate ==
    (Returned /\ HasMonthDayYearDate) =>
        /\ "dateIssued" \in DOMAIN extracted
        /\ IsDDMMYYYY(extracted["dateIssued"])
        /\ includes(text, DateLines[2]) => extracted["dateIssued"] = <<"0","7","/","0","6","/","2","0","2","5">>

\* C6: the input '15 August 2024', the only date of the text, is returned as
\* dateIssued '15/08/2024'.
C6_DayMonthYear ==
    (entry = "parseCertificateText" /\ text = DateLines[3] /\ Returned) =>
        Has("dateIssued", <<"1","5","/","0","8","/","2","0","2","4">>)

\* C7: for the input text '15/08/2024' the returned dateIssued is
\* '15/08/2024', the numeric date unchanged.
C7_NumericDateUnchanged ==
    (entry = "parseCertificateText" /\ text = DateLines[4] /\ Returned) =>
        /\ Has("dateIssued", text)
        /\ outcome.parsedData["dateIssued"] = <<"1","5","/","0","8","/","2","0","2","4">>

\* the text '15/08/2024' has been parsed and a dateIssued returned
C7_Witness ==
    /\ entry = "parseCertificateText"
    /\ text = <<"1","5","/","0","8","/","2","0","2","4">>
    /\ Returned
    /\ "dateIssued" \in DOMAIN outcome.parsedData

\* the media type of the file is none of the accepted image types
TypeNotAccepted ==
    /\ entry = "extractText"
    /\ \A i \in DOMAIN validTypes : toLowerCase(file.type) # validTypes[i]

\* C8: extractText of a file whose media type is not accepted fails with the
\* 'unsupported file type' message of the type check, not with the generic
\* 'failed to extract text' message.
C8_UnsupportedTypeSurfaced ==
    (TypeNotAccepted /\ pc = "failed") =>
        /\ outcome.kind = "error"
        /\ outcome.message = UnsupportedFileType
        /\ outcome.message # ExtractionFailure

\* C9: when the media type of the file is not accepted, extractText never
\* starts fileToDataURL, Tesseract.recognize or parseCertificateText.
C9_NoWorkOnUnsupportedType ==
    TypeNotAccepted =>
        /\ \A i \in DOMAIN calls :
              calls[i] \notin {"fileToDataURL", "recognize", "parseCertificateText"}
        /\ pc \in {"extractText", "failed"}
        /\ extracted = EmptyRecord

\* extractText of a PDF file has failed after the type check alone
C9_Witness ==
    /\ TypeNotAccepted
    /\ file.type = FileTypes[3]
    /\ pc = "failed"
    /\ calls = <<"isValidFileType">>
    /\ outcome.kind = "error"

\* the heading 'XYZ Institute of Technology' followed by 'Mr. RAJESH KUMAR'
HeadingAndName == Document(<<1, 2, 0, 0, 0>>, 1)

\* C10: for 'XYZ Institute of Technology' followed on the next line by
\* 'Mr. RAJESH KUMAR' the returned studentName is 'RAJESH KUMAR' and contains
\* neither 'Institute' nor 'Technology'.
C10_NameNotInstitution ==
    (text = HeadingAndName /\ Returned) =>
        /\ Has("studentName", <<"R","A","J","E","S","H"," ","K","U","M","A","R">>)
        /\ outcome.parsedData["studentName"] = <<"R","A","J","E","S","H"," ","K","U","M","A","R">>
        /\ ~includes(toLowerCase(extracted["studentName"]), <<"i","n","s","t","i","t","u","t","e">>)
        /\ ~includes(toLowerCase(extracted["studentName"]), <<"t","e","c","h","n","o","l","o","g","y">>)

\* the heading and the name have been parsed and a studentName returned
C10_Witness ==
    /\ text = HeadingAndName
    /\ HeadingAndName = HeaderLines[1] \o <<"\n">> \o NameLines[2]
    /\ Returned
    /\ "studentName" \in DOMAIN outcome.parsedData

\* s contains none of the institution words, whatever the case of its letters
NoInstitutionWord(s) ==
    \A i \in DOMAIN institutionWords :
        ~includes(toLowerCase(s), toLowerCase(institutionWords[i]))

\* C11: whichever pass sets studentName, the stored studentName contains none
\* of the words institute, college, university, technology, school, academy,
\* engineering, vidyalankar as a case-insensitive substring.
C11_NameHasNoInstitutionWord ==
    /\ "studentName" \in DOMAIN extracted => NoInstitutionWord(extracted["studentName"])
    /\ (Returned /\ "studentName" \in DOMAIN outcome.parsedData) =>
          NoInstitutionWord(outcome.parsedData["studentName"])

\* 'Mr. COLLEGEJOSHI' followed by 'Roll No: ab-123x': the captured name held
\* the word COLLEGEJOSHI and the name returned is what the filter left of it
C11_Witness ==
    /\ Returned
    /\ text = Document(<<0, 3, 2, 0, 0>>, 1)
    /\ includes(toLowerCase(cleanedText), <<"c","o","l","l","e","g","e">>)
    /\ "studentName" \in DOMAIN afterPrimary
    /\ outcome.parsedData["studentName"] = <<"R","o","l","l"," ","N","o">>

\* a call of validateExtractedData has returned
Validated == pc = "validated" /\ outcome.kind = "Validation"

\* the three requirements, in the order of their messages; an attribute is
\* missing when it is absent or the empty string
Requirements ==
    <<[unmet |-> "studentName" \notin DOMAIN data \/ data["studentName"] = <<>>,
       message |-> StudentNameNotFound],
      [unmet |-> /\ "studentRoll" \notin DOMAIN data \/ data["studentRoll"] = <<>>
                 /\ "certificateNumber" \notin DOMAIN data
                       \/ data["certificateNumber"] = <<>>,
       message |-> RollOrCertificateNotFound],
      [unmet |-> "institutionName" \notin DOMAIN data \/ data["institutionName"] = <<>>,
       message |-> InstitutionNameNotFound]>>

\* the messages of the unmet requirements, in order
UnmetMessages ==
    LET Unmet(r) == r.unmet
        unmet == SelectSeq(Requirements, Unmet)
    IN [i \in DOMAIN unmet |-> unmet[i].message]

\* C12: validateExtractedData appends exactly one message per unmet
\* requirement (studentName missing; studentRoll and certificateNumber both
\* missing; institutionName missing), in that order; isValid is true exactly
\* when no message was appended; the empty record gives isValid = false and
\* three messages; a record with studentName, studentRoll and institutionName
\* gives isValid = true.
C12_ValidatorMessages ==
    Validated =>
        /\ outcome.result.errors = UnmetMessages
        /\ outcome.result.isValid <=> (outcome.result.errors = <<>>)
        /\ data = EmptyRecord =>
              /\ ~outcome.result.isValid
              /\ outcome.result.errors =
                    <<StudentNameNotFound, RollOrCertificateNotFound,
                      InstitutionNameNotFound>>
        /\ data = [studentName |-> <<"A">>, studentRoll |-> <<"B">>,
                   institutionName |-> <<"C">>] => outcome.result.isValid

\* a record with a name, an institution and a certificate number but no roll
\* number has been found valid
C12_Witness ==
    /\ Validated
    /\ data = [studentName |-> <<"A">>, certificateNumber |-> <<"D">>,
               institutionName |-> <<"C">>]
    /\ outcome.result = [isValid |-> TRUE, errors |-> <<>>]

\* a call of formatExtractedData has returned
Formatted == pc = "formatted" /\ outcome.kind = "Formatted"

\* the display order: Student Name, Roll Number, Certificate Number,
\* Institution, Course, Marks, Date Issued, UIN
DisplayOrder ==
    <<<<"studentName", <<"S","t","u","d","e","n","t"," ","N","a","m","e">>>>,
      <<"studentRoll", <<"R","o","l","l"," ","N","u","m","b","e","r">>>>,
      <<"certificateNumber", <<"C","e","r","t","i","f","i","c","a","t","e"," ","N","u","m","b","e","r">>>>,
      <<"institutionName", <<"I","n","s","t","i","t","u","t","i","o","n">>>>,
      <<"courseName", <<"C","o","u","r","s","e">>>>,
      <<"marks", <<"M","a","r","k","s">>>>,
      <<"dateIssued", <<"D","a","t","e"," ","I","s","s","u","e","d">>>>,
      <<"uin", <<"U","I","N">>>>>>

\* one 'Label: value' line per attribute that holds a value, in display order
ExpectedLines ==
    LET Present(pair) == pair[1] \in DOMAIN data /\ data[pair[1]] # <<>>
        present == SelectSeq(DisplayOrder, Present)
    IN [i \in DOMAIN present |-> present[i][2] \o <<":", " ">> \o data[present[i][1]]]

\* the lines of the formatted text
FormattedLines ==
    IF outcome.result = <<>> THEN <<>> ELSE split(outcome.result, Literal(<<"\n">>))

\* C13: formatExtractedData produces exactly one 'Label: value' line per
\* present field and no line for an absent field, in the fixed order Student
\* Name, Roll Number, Certificate Number, Institution, Course, Marks, Date
\* Issued, UIN; a record holding only studentName 'A' gives exactly
\* 'Student Name: A'.
C13_FormatterLines ==
    Formatted =>
        /\ FormattedLines = ExpectedLines
        /\ data = [studentName |-> <<"A">>] => outcome.result = <<"S","t","u","d","e","n","t"," ","N","a","m","e",":"," ","A">>

\* a record of three attributes has been formatted into three lines
C13_Witness ==
    /\ Formatted
    /\ data = [uin |-> <<"U">>, studentName |-> <<"A">>, marks |-> <<"9">>]
    /\ outcome.result = <<"S","t","u","d","e","n","t"," ","N","a","m","e",":"," ","A">> \o <<"\n">> \o <<"M","a","r","k","s",":"," ","9">> \o <<"\n">> \o <<"U","I","N",":"," ","U">>

\* the cleaning step of parseCertificateText has just run
Normalized == pc = "primary"

\* C14: normalization is idempotent: cleaning the cleaned text of a raw text
\* and splitting it into lines gives the same cleaned text and the same lines
\* as cleaning the raw text.
C14_NormalizationIdempotent ==
    Normalized =>
        /\ cleanText(cleanedText) = cleanedText
        /\ splitLines(cleanText(cleanedText)) = lines

\* a text with an apostrophe, an ampersand and a line break has been cleaned
\* into a different text
C14_Witness ==
    /\ Normalized
    /\ text = HeaderLines[2] \o <<"\n">> \o NameLines[2]
    /\ cleanedText = <<"S","t","."," ","M","a","r","y"," ","s"," ","C","o","l","l","e","g","e",","," ","P","u","n","e"," ","G","o","a"," ","M","r","."," ","R","A","J","E","S","H"," ","K","U","M","A","R">>
    /\ cleanedText # text

\* ASCII letters, ASCII digits, whitespace and the punctuation - . , / : ( )
AllowList == Upper \cup Lower \cup Digit \cup Space \cup {"-", ".", ",", "/", ":", "(", ")"}

\* C15: the cleaned text contains only characters of the allow-list (ASCII
\* letters, ASCII digits, whitespace and - . , / : ( )); every other character
\* of the input, the underscore included, has been replaced by a space.
C15_CleanedTextAllowListed ==
    Normalized => \A i \in DOMAIN cleanedText : cleanedText[i] \in AllowList

\* pass a has run, and before every run of pass b
RanBefore(a, b) ==
    \A i \in DOMAIN passes :
        passes[i] = b => \E j \in 1..(i - 1) : passes[j] = a

PassOrder ==
    <<"primaryLoop", "rollFallback", "institutionFallback",
      "extractFromFormFields", "receiptNameFallback", "receiptDateFallback">>

PrimaryDone == pc = "rollFallback"

\* the first capture group of the match, trimmed; <<>> without a match
CaptureOf(line, match) ==
    IF match.ok THEN trim(Group(line, match, 1)) ELSE <<>>

\* the first capture group of the i-th pattern of the field on the k-th line,
\* trimmed; <<>> when the pattern does not match or has no such group
Capture(field, k, i) ==
    CaptureOf(lines[k], Search(patterns[field][i], lines[k]))

\* the capture has a trimmed length above 2 and is non-empty after the
\* clean-up of the field
GoodCapture(field, capture) ==
    Len(capture) > 2 /\ Len(cleanValue(field, capture)) > 0

\* the pairs (line, pattern) of a field with a good capture
GoodPairs(field) ==
    {p \in (DOMAIN lines) \X (DOMAIN patterns[field]) :
        GoodCapture(field, Capture(field, p[1], p[2]))}

\* the first pair of a non-empty set: lines in order, and for each line the
\* patterns in list order
FirstPair(pairs) ==
    CHOOSE p \in pairs :
        \A q \in pairs : p[1] < q[1] \/ (p[1] = q[1] /\ p[2] <= q[2])

\* the cleaned capture of a pair
ValueOfPair(field, p) == cleanValue(field, Capture(field, p[1], p[2]))

\* the primary loop stored for the field what the first of the good pairs
\* yields, and nothing when there is none
StoredFirstOf(field, pairs) ==
    IF pairs = {} THEN field \notin DOMAIN afterPrimary
    ELSE /\ field \in DOMAIN afterPrimary
         /\ afterPrimary[field] = ValueOfPair(field, FirstPair(pairs))

\* C17: for each of the eight fields, the value the primary loop stores comes
\* from the first (line, pattern) pair, lines in order and for each line the
\* patterns in list order, whose first capture group exists, has a trimmed
\* length above 2 and is non-empty after the clean-up; when there is no such
\* pair nothing is stored, so a capture of trimmed length 2 or less is never
\* accepted.
C17_FirstAcceptableMatch ==
    PrimaryDone =>
        /\ DOMAIN afterPrimary \subseteq Fields
        /\ \A f \in Fields : StoredFirstOf(f, GoodPairs(f))

\* for '15/08/2024' the second marks pattern captures '15', of length 2, and
\* no marks are stored, while dateIssued comes from its second pattern
C17_Witness ==
    /\ PrimaryDone
    /\ text = DateLines[4]
    /\ Capture("marks", 1, 2) = <<"1", "5">>
    /\ "marks" \notin DOMAIN afterPrimary
    /\ FirstPair(GoodPairs("dateIssued")) = <<1, 2>>
    /\ afterPrimary["dateIssued"] = DateLines[4]

\* the lines of the raw text, each cleaned like the text itself
RawLines == nonEmptyLines([k \in DOMAIN split(text, Literal(<<"\n">>)) |->
                              cleanText(split(text, Literal(<<"\n">>))[k])])

\* C18: patterns are tried against each line separately: every value the
\* primary extractor accepts is captured from within a single line of the raw
\* text, so no value combines characters of two lines; institutionName never
\* absorbs the person's name of the following line.
C18_CaptureWithinOneLine ==
    PrimaryDone =>
        /\ \A f \in DOMAIN afterPrimary :
              \E k \in DOMAIN RawLines : afterPrimary[f] = patternLoop(f, RawLines[k], 1)
        /\ (text = HeadingAndName /\ "institutionName" \in DOMAIN afterPrimary) =>
              ~includes(afterPrimary["institutionName"], <<"R","A","J","E","S","H">>)

\* the patterns of the field with a good capture on the line
GoodPatterns(field, line) ==
    {i \in DOMAIN patterns[field] :
        GoodCapture(field, CaptureOf(line, Search(patterns[field][i], line)))}

\* line k1 of the raw text is the first to yield an acceptable match for the
\* field, for the pattern of set g1 listed first, and the later line k2 yields
\* one for a pattern of g2 listed before it: the field holds the value of
\* line k1
EarlierLineWins(field, k1, g1, g2) ==
    (g1 # {} /\ g2 # {} /\ Least(g2) < Least(g1)) =>
        /\ field \in DOMAIN afterPrimary
        /\ afterPrimary[field] = patternLoop(field, RawLines[k1], 1)

\* C19: line order takes precedence over pattern order: when an earlier line
\* of the raw text yields an acceptable match only for a later-listed pattern
\* of a field and a later line yields one for an earlier-listed pattern of
\* the field, the field takes the value from the earlier line.
C19_LineOrderFirst ==
    PrimaryDone =>
        \A f \in Fields : \A k1, k2 \in DOMAIN RawLines :
            (/\ k1 < k2
             /\ \A k \in 1..(k1 - 1) : GoodPatterns(f, RawLines[k]) = {}) =>
                EarlierLineWins(f, k1, GoodPatterns(f, RawLines[k1]),
                                GoodPatterns(f, RawLines[k2]))

\* the patterns of a field that are anchored on a label or keyword, by their
\* place in the list of the field; its other patterns match on shape alone
LabelAnchored ==
    [studentRoll |-> {1, 2, 3},
     certificateNumber |-> {1, 2, 3, 4},
     marks |-> {1, 3, 4},
     dateIssued |-> {1, 3},
     uin |-> {1, 2}]

\* the cleaned capture of the pattern of set g listed first, on the line
FirstListedValue(field, line, g) ==
    cleanValue(field, CaptureOf(line, Search(patterns[field][Least(g)], line)))

\* label-anchored patterns g1 match acceptably on line k1 and catch-all
\* patterns g2 on a line no earlier: the returned value is the label-anchored
\* one
LabelAnchoredWins(field, k1, g1, g2) ==
    (g1 # {} /\ g2 # {}) =>
        /\ field \in DOMAIN outcome.parsedData
        /\ outcome.parsedData[field] = FirstListedValue(field, RawLines[k1], g1)

\* C20: when the text has a label-anchored match for a field on a line that
\* is no later than a line with a catch-all-shape match for the same field,
\* the final value of the field is the label-anchored one, and no fallback
\* pass replaces it.
C20_LabelAnchoredFirst ==
    Returned =>
        \A f \in DOMAIN LabelAnchored : \A k1, k2 \in DOMAIN RawLines :
            (/\ k1 <= k2
             /\ \A k \in 1..(k1 - 1) :
                   GoodPatterns(f, RawLines[k]) \cap LabelAnchored[f] = {}) =>
                LabelAnchoredWins(f, k1,
                    GoodPatterns(f, RawLines[k1]) \cap LabelAnchored[f],
                    GoodPatterns(f, RawLines[k2]) \ LabelAnchored[f])

\* uppercase ASCII letters, ASCII digits and the hyphen
RollCharacters == Upper \cup Digit \cup {"-"}

\* C21: in the returned record studentRoll and certificateNumber, when
\* present, consist only of uppercase letters, digits and hyphens, whichever
\* pass (primary extractor, generic roll fallback, form-field fallback) set
\* them.
C21_RollUppercaseDigitsHyphens ==
    Returned =>
        \A f \in {"studentRoll", "certificateNumber"} :
            f \in DOMAIN outcome.parsedData =>
                \A i \in DOMAIN outcome.parsedData[f] :
                    outcome.parsedData[f][i] \in RollCharacters

\* the form-field pass has just run
FormFieldsDone == pc = "receiptName"

\* the guard of the form-field pass on a filtered name
FormNameGuard(name) == Search(reValidSurname, name).ok /\ Len(name) > 5

\* the candidate of the i-th form-field name pattern on the cleaned text: its
\* capture, trimmed and filtered
FormNameCandidate(i) ==
    filterInstitutionWords(
        CaptureOf(cleanedText, Search(formPatterns["studentName"][i], cleanedText)))

\* the form-field name patterns whose capture is long enough and whose
\* candidate passes the guard
PassingFormNames ==
    {i \in DOMAIN formPatterns["studentName"] :
        /\ Acceptable(cleanedText, Search(formPatterns["studentName"][i], cleanedText))
        /\ FormNameGuard(FormNameCandidate(i))}

\* studentName is in new what it is in old
SameName(old, new) ==
    /\ ("studentName" \in DOMAIN new) = ("studentName" \in DOMAIN old)
    /\ "studentName" \in DOMAIN old => new["studentName"] = old["studentName"]

\* what the form-field pass may do to studentName, given the passing patterns
FormNameStep(old, new, passing) ==
    IF Truthy(old, "studentName") \/ passing = {}
    THEN SameName(old, new)
    ELSE /\ "studentName" \in DOMAIN new
         /\ new["studentName"] = FormNameCandidate(Least(passing))
         /\ FormNameGuard(new["studentName"])

\* C22: the form-field fallback sets studentName only to a value that, after
\* the institution-word filter, contains a known surname and is longer than 5
\* characters; a candidate failing the guard is skipped and the next form-field
\* name pattern is tried; if none passes, studentName is left as it was.
C22_FormNameGuarded ==
    [][FormFields => FormNameStep(extracted, extracted', PassingFormNames)]_vars

\* the form-field pass has skipped the candidate of its second name pattern
\* ('College', empty once filtered) and stored that of its third
C22_Witness ==
    /\ FormFieldsDone
    /\ "studentName" \notin DOMAIN afterPrimary
    /\ Acceptable(cleanedText, Search(formPatterns["studentName"][2], cleanedText))
    /\ ~FormNameGuard(FormNameCandidate(2))
    /\ PassingFormNames = {3}
    /\ Has("studentName", <<"S","I","T","A","R","A","M">>)

\* how many times the call of extractText has invoked the OCR engine
Recognitions == Len(SelectSeq(calls, LAMBDA c : c = "recognize"))

\* the call of extractText has ended
Settled == entry = "extractText" /\ pc \in {"failed", "returned"}

\* C23: a call of extractText invokes the OCR engine at most once and never
\* retries: when the file read or the OCR call fails the call ends in a
\* single failure, with no ExtractedData and no second OCR invocation; when
\* it succeeds exactly one ExtractedData is returned; once the call has ended
\* nothing more happens in it.
C23_OneRecognitionNoRetry ==
    /\ [](entry = "extractText" =>
            /\ Recognitions <= 1
            /\ pc = "failed" =>
                  /\ outcome = [kind |-> "error", message |-> ExtractionFailure]
                  /\ caught \in {UnsupportedFileType, FailedToReadFile, RecognizeError}
                  /\ caught = RecognizeError => Recognitions = 1
                  /\ caught # RecognizeError => Recognitions = 0
            /\ pc = "returned" =>
                  /\ outcome.kind = "ExtractedData"
                  /\ Recognitions = 1
            /\ pc \notin {"failed", "returned"} => outcome = Pending)
    /\ [][Settled => UNCHANGED <<calls, outcome, pc>>]_vars

\* the OCR engine was invoked once, failed, and the call has ended in the
\* failure
C23_Witness ==
    /\ Settled
    /\ pc = "failed"
    /\ caught = RecognizeError
    /\ Recognitions = 1
    /\ outcome.kind = "error"

Handled == entry = "handleOCRVerification" /\ pc = "handled"

\* the comparisons of the OCR data with the stored document that match
Matching == {k \in DOMAIN comparison(data, document) : comparison(data, document)[k]}

\* the rounded percentage of n matching comparisons out of six
RoundedPercentage(n) == CHOOSE p \in 0..100 : 6 * (2 * p - 1) <= 200 * n /\ 200 * n < 6 * (2 * p + 1)

\* C25: handleOCRVerification requests the transition to 'verified' for the
\* document exactly when the rounded percentage of matching comparisons among
\* its six comparisons is at least 80, that is when at least five of the six
\* match; with four or fewer matches no status update is requested.
C25_AutoApproveFromEighty ==
    Handled =>
        /\ DOMAIN comparison(data, document) =
              {"studentName", "studentRoll", "docType", "uin", "marks", "dateIssued"}
        /\ management.toasts =
              <<VerificationComplete(RoundedPercentage(Cardinality(Matching)))>>
        /\ (RoundedPercentage(Cardinality(Matching)) >= 80) = (Cardinality(Matching) >= 5)
        /\ IF Cardinality(Matching) >= 5
           THEN management.statusRequests = <<StatusRequest(document.id, "verified")>>
           ELSE management.statusRequests = <<>>

\* five of the six comparisons match (the name differs) and the transition
\* to 'verified' was requested
C25_Witness ==
    /\ Handled
    /\ Cardinality(Matching) = 5
    /\ "studentName" \notin Matching
    /\ management.toasts[1].matchPercentage = 83
    /\ management.statusRequests = <<StatusRequest(document.id, "verified")>>

\* the number of line breaks of a text
LineBreaks(t) == Len(SelectSeq(t, LAMBDA c : c = "\n"))

\* C26: for every raw text the lines sequence has at most one element: it is
\* empty when the cleaned text is empty and otherwise holds exactly the whole
\* cleaned text, since the collapse of whitespace removes every line break
\* before the split.
C26_AtMostOneLine ==
    Normalized =>
        /\ Len(lines) <= 1
        /\ LineBreaks(cleanedText) = 0
        /\ lines = IF Len(cleanedText) = 0 THEN <<>> ELSE <<cleanedText>>

\* a raw text of three lines whose lines sequence is the one cleaned text
C26_Witness ==
    /\ Normalized
    /\ LineBreaks(text) = 2
    /\ Len(lines) = 1
    /\ lines[1] = cleanedText
    /\ Len(cleanedText) > 0

\* the receipt-date fallback is reached, or has just run
AtReceiptDate == pc = "receiptDate"

ReceiptDateDone == pc = "return"

\* dateIssued is in new what it is in old
SameDate(old, new) ==
    /\ ("dateIssued" \in DOMAIN new) = ("dateIssued" \in DOMAIN old)
    /\ "dateIssued" \in DOMAIN old => new["dateIssued"] = old["dateIssued"]

\* C27: the receipt-date fallback never assigns dateIssued: for every text on
\* which its pattern (month name, day, comma, four-digit year) matches, the
\* primary extractor has set dateIssued before the fallback is reached, so
\* the guard of the fallback is false.
C27_ReceiptDateNeverAssigns ==
    /\ []((AtReceiptDate /\ Search(reReceiptDate, cleanedText).ok) =>
             /\ Truthy(afterPrimary, "dateIssued")
             /\ Truthy(extracted, "dateIssued"))
    /\ [][ReceiptDate => SameDate(extracted, extracted')]_vars

\* the receipt-date fallback has run on 'June 27, 2025', which its pattern
\* matches, and dateIssued is the '27, 2025' of the primary extractor
C27_Witness ==
    /\ ReceiptDateDone
    /\ text = DateLines[1]
    /\ Search(reReceiptDate, cleanedText).ok
    /\ passes[Len(passes)] = "receiptDateFallback"
    /\ Has("dateIssued", <<"2","7",","," ","2","0","2","5">>)
    /\ afterPrimary["dateIssued"] = extracted["dateIssued"]

\* the attributes no fallback pass has a rule for
PrimaryOnly == {"courseName", "marks", "uin"}

\* record new holds for the attributes of PrimaryOnly what record old holds
SamePrimaryOnly(old, new) ==
    \A f \in PrimaryOnly :
        /\ (f \in DOMAIN new) = (f \in DOMAIN old)
        /\ f \in DOMAIN old => new[f] = old[f]

\* C28: no fallback pass sets or changes courseName, marks or uin: after the
\* primary loop they stay as the primary loop left them through the roll,
\* institution, form-field, receipt-name and receipt-date passes, up to the
\* returned record.
C28_FallbacksLeaveCourseMarksUin ==
    /\ SamePrimaryOnly(afterPrimary, extracted)
    /\ Returned => SamePrimaryOnly(afterPrimary, outcome.parsedData)

\* a returned record to which the form-field pass has added studentRoll,
\* with the courseName and marks of the primary loop and, as after the
\* primary loop, no uin
C28_Witness ==
    /\ Returned
    /\ text = HeaderLines[1] \o <<"\n">> \o NumberLines[3] \o <<"\n">> \o DateLines[5]
    /\ DOMAIN outcome.parsedData = DOMAIN afterPrimary \cup {"studentRoll"}
    /\ "studentRoll" \notin DOMAIN afterPrimary
    /\ {"courseName", "marks"} \subseteq DOMAIN afterPrimary
    /\ "uin" \notin DOMAIN outcome.parsedData
    /\ outcome.parsedData["marks"] = <<"1","2",".","2","0","2","0">>

\* C29: every run of processDocument stops the progress timer it started:
\* once a run has finished, whether extractText succeeded or failed, the
\* interval the run started is no longer scheduled.
C29_FinishedRunsHaveNoInterval ==
    \A run \in processor.finished : run \notin processor.intervals

\* C30: the UIN uniqueness result shown always refers to the UIN currently in
\* the form: when the UIN is edited while an earlier existence check is in
\* flight, the late response for the old UIN never sets uinValidation for the
\* new UIN. So whenever no check is shown as running, no check of the current
\* UIN is still to come, a message shown names the current UIN, and a valid
\* verdict for a non-empty UIN was obtained for that UIN.
C30_ValidationOfCurrentUin ==
    ~request.uinValidation.isChecking =>
        /\ ~request.timer.pending
        /\ ~request.uinValidation.isValid =>
              request.uinValidation = UinExists(trim(request.uin))
        /\ (request.uinValidation.isValid /\ Len(trim(request.uin)) > 0) =>
              request.checkedUin = trim(request.uin)
====
